---- MODULE Spec2Model ----
(***************************************************************************)
(* Interrupt routing core of the VMM: the IO-APIC and XT-PIC pin pools     *)
(* (kvm_irqchip.rs), the KVM GSI routing table (kvm_irq_routing.rs) and    *)
(* the MSI / legacy interrupt objects built on it (interrupts/mod.rs).     *)
(***************************************************************************)
EXTENDS Integers, Sequences, FiniteSets, TLC

VARIABLES
    routes,     \* KvmIrqRoutingTable.routes: HashMap<u64, kvm_irq_routing_entry>
    ioapic,     \* KvmIrqRoutingTable.ioapic: [available_pins, shared_pins]
    xt_pic,     \* KvmIrqRoutingTable.xt_pic: the set available_pins
    kvm,        \* the routing table the hypervisor accepted last (set of entries)
    irqs,       \* the interrupt objects created so far (KvmMsiInterrupt / KvmLegacyInterrupt)
    irqfds,     \* the notifier fds registered with the hypervisor: pairs <<interrupt, gsi>>
    next_gsi,   \* the GSI cursor the interrupt groups allocate from
    crashed,    \* TRUE once a call panicked (unwrap on None)
    nops,       \* number of public calls made so far
    rejects,    \* number of commits the hypervisor rejected so far
    last,       \* the last public call: arguments, result, state before it
    prev,       \* the call before the last one: arguments and result (kept by Spec)
    fdlog,      \* the irqfd calls the hypervisor received, in order
    snap,       \* an interrupt's state at its last effective disable (kept by SpecIrq)
    threads,    \* the calls in flight: each thread's position and locals
    mutex,      \* the holder of the routing table's Mutex, 0 when free
    pinlog,     \* the allocate_pin calls made on each pool, in order, with their results
    allocator,  \* DefaultGsiAllocator: [next_irq, next_gsi, max_irq]
    solo,       \* the same allocator, had only its allocate_irq calls been made
    gsilog,     \* the allocate_irq / allocate_gsi calls made, in order, with their results
    routed,     \* the interrupts for which an update got a route installed (kept by SpecIrq)
    groups,     \* the interrupt groups handed out: [kind, interrupts], indices into irqs
    gsi_mutex,  \* the holder of the GSI allocator's Mutex, 0 when free
    boot        \* the position of PortIODeviceManager::new / register_devices

vars == <<routes, ioapic, xt_pic, kvm, irqs, irqfds, next_gsi, crashed, nops, rejects, last, prev,
          fdlog, snap, threads, mutex, pinlog, allocator, solo, gsilog,
          routed, groups, gsi_mutex, boot>>
life == <<fdlog, snap>>
conc == <<threads, mutex>>
alloc_vars == <<pinlog, allocator, solo, gsilog>>
grp == <<groups, gsi_mutex, boot>>
aux == <<alloc_vars, routed, grp>>

(***************************************************************************)
(* Bounds of the model.                                                    *)
(***************************************************************************)
MaxOps == 3          \* public calls in one run of Spec / SpecIrq
MaxCycleOps == 4     \* public calls in one run of SpecCycle
MaxRejects == 1      \* commits the hypervisor rejects in one run of SpecDrain
MaxDrainOps == 26    \* public calls in one run of SpecDrain
MaxIrqs == 1         \* interrupt objects created in one run of SpecIrq / SpecFd
MaxThreads == 3      \* threads calling enable / disable concurrently in SpecFd
MaxUpdaters == 2     \* threads calling update concurrently in SpecConc

(***************************************************************************)
(* Program constants.                                                      *)
(***************************************************************************)
IRQ_BASE == 5                    \* arch::IRQ_BASE on x86_64
IRQ_MAX == 23                    \* arch::IRQ_MAX on x86_64
PIC_MAX == 15                    \* last XT-PIC pin
CHAIN_PIN == 2                   \* IRQ2 chains the slave PIC
KVM_IRQ_ROUTING_IRQCHIP == 1
KVM_IRQ_ROUTING_MSI == 2
KVM_IRQCHIP_PIC_MASTER == 0
KVM_IRQCHIP_PIC_SLAVE == 1
KVM_IRQCHIP_IOAPIC == 2
KVM_MSI_VALID_DEVID == 1
MAX_ROUTES == 4096               \* KvmIrqRoutingTable::MAX_ROUTES

\* Option<u32>: None is the empty sequence, Some(p) the one-element sequence.
None == <<>>
Some(p) == <<p>>
IsSome(o) == o # <<>>
Unwrap(o) == o[1]

Range(f) == {f[k] : k \in DOMAIN f}
SeqRange(s) == {s[i] : i \in 1..Len(s)}
Min(S) == CHOOSE x \in S : \A y \in S : x <= y
RemoveAt(s, idx) == SubSeq(s, 1, idx - 1) \o SubSeq(s, idx + 1, Len(s))
Position(s, p) == Min({i \in 1..Len(s) : s[i] = p})

(***************************************************************************)
(* kvm_irqchip.rs                                                          *)
(***************************************************************************)
\* An IO-APIC pool that also holds the chaining pin.
IoApic_new_chained == [available_pins |-> 1..IRQ_MAX, shared_pins |-> <<>>]

\* IoApic::new: every pin of 1..=IRQ_MAX but IRQ2 is available, none is shared.
IoApic_new ==
    [available_pins |-> {i \in 1..IRQ_MAX : i # CHAIN_PIN}, shared_pins |-> <<>>]

\* An allocation that queues the pin whether it may be shared or not.
Pushed_always(queue, shared, pin) == Append(queue, pin)

\* `if shared { self.shared_pins.push_back(pin) }`
Pushed(queue, shared, pin) == IF shared THEN Append(queue, pin) ELSE queue

\* A shared request that queues the pin again and leaves its old place.
Requeued_twice(queue, rpin) == Append(queue, rpin)

\* The requested shared pin moves to the end of the queue:
\* `shared_pins.remove(idx)` then `push_back(rpin)`.
Requeued(queue, rpin) == Append(RemoveAt(queue, Position(queue, rpin)), rpin)

\* A queue that hands out its last pin again.
Rotated_stuck(queue) == [pin |-> queue[Len(queue)], queue |-> queue]

\* The least recently used shared pin is handed out and moves to the end:
\* `pop_front()` then `push_back(pin)`.
Rotated(queue) == [pin |-> Head(queue), queue |-> Append(Tail(queue), Head(queue))]

\* IoApic::allocate_pin: [pin |-> Option, panic |-> BOOLEAN, io |-> the pool after]
IoApic_allocate_pin(io, shared, requested_pin) ==
    LET kept(pin, queue) ==
            [pin |-> Some(pin), panic |-> FALSE,
             io |-> [available_pins |-> io.available_pins \ {pin}, shared_pins |-> queue]]
        none == [pin |-> None, panic |-> FALSE, io |-> io]
        rpin == Unwrap(requested_pin)
    IN  IF IsSome(requested_pin) /\ rpin \in io.available_pins
        THEN kept(rpin, Pushed(io.shared_pins, shared, rpin))
        ELSE IF IsSome(requested_pin) /\ shared
        THEN IF rpin \in SeqRange(io.shared_pins)
             THEN kept(rpin, Requeued(io.shared_pins, rpin))
             ELSE none
        \* an exclusive request for a pin that is not available falls through here
        ELSE IF io.available_pins # {}
        THEN LET pin == Min(io.available_pins)
             IN  kept(pin, Pushed(io.shared_pins, shared, pin))
        ELSE IF shared
        THEN IF io.shared_pins = <<>>
             THEN [pin |-> None, panic |-> TRUE, io |-> io]     \* pop_front().unwrap()
             ELSE kept(Rotated(io.shared_pins).pin, Rotated(io.shared_pins).queue)
        ELSE none

\* An XT-PIC pool that also holds the chaining pin.
XtPic_new_chained == 1..PIC_MAX

XtPic_new == {i \in 1..PIC_MAX : i # CHAIN_PIN}

\* An XT-PIC pool that hands out a pin and keeps it available.
XtPic_allocate_pin_kept(pic, requested_pin) ==
    IF requested_pin # <<>>
    THEN [pin |-> IF requested_pin[1] \in pic THEN requested_pin ELSE <<>>, pic |-> pic]
    ELSE [pin |-> IF pic # {} THEN <<Min(pic)>> ELSE <<>>, pic |-> pic]

\* XtPic::allocate_pin: [pin |-> Option, pic |-> the available set after]
XtPic_allocate_pin(pic, requested_pin) ==
    IF IsSome(requested_pin)
    THEN IF Unwrap(requested_pin) \in pic
         THEN [pin |-> requested_pin, pic |-> pic \ {Unwrap(requested_pin)}]
         ELSE [pin |-> None, pic |-> pic]
    ELSE IF pic # {}
         THEN [pin |-> Some(Min(pic)), pic |-> pic \ {Min(pic)}]
         ELSE [pin |-> None, pic |-> pic]

(***************************************************************************)
(* kvm_irq_routing.rs                                                      *)
(***************************************************************************)
\* kvm_irq_routing_entry: gsi, type_, flags and the union u, four 32-bit words.
\* u.irqchip = {irqchip, pin} lies on words 1, 2; u.msi = {address_lo, address_hi,
\* data, devid} on words 1..4.
IrqchipEntry(gsi, irqchip, pin) ==
    [gsi |-> gsi, type |-> KVM_IRQ_ROUTING_IRQCHIP, flags |-> 0, u |-> <<irqchip, pin, 0, 0>>]

MsiEntry(gsi, address_lo, address_hi, data, devid) ==
    [gsi |-> gsi, type |-> KVM_IRQ_ROUTING_MSI, flags |-> KVM_MSI_VALID_DEVID,
     u |-> <<address_lo, address_hi, data, devid>>]

\* KvmIrqRoutingTable::hash_key: irq_chip << 48 | type_ << 32 | gsi, kept as its
\* three bit fields <<bits 48.., bits 32..47, bits 0..31>>.
hash_key(entry) ==
    LET irq_chip == IF entry.type = KVM_IRQ_ROUTING_IRQCHIP THEN entry.u[1] ELSE 0
    IN  <<irq_chip, entry.type, entry.gsi>>

\* Mutant of Insert: an entry already filed under the key is kept.
Insert_keepOld(map, key, entry) == map @@ (key :> entry)

\* HashMap::insert / entry().and_modify().or_insert(): the entry filed under key
\* is the new one, every other key keeps its entry.
Insert(map, key, entry) == (key :> entry) @@ map

\* Mutant of Remove: the rollback leaves the key in the map.
Remove_noop(map, key) == map

\* HashMap::remove
Remove(map, key) == [k \in DOMAIN map \ {key} |-> map[k]]
EmptyMap == [k \in {} |-> 0]

\* Mutant of set_routing: a rejected commit is issued a second time.
set_routing_retry(map, table, accepted) ==
    [ok |-> accepted, table |-> IF accepted THEN Range(map) ELSE table,
     calls |-> IF accepted THEN <<TRUE>> ELSE <<FALSE, FALSE>>]

\* KvmIrqRoutingTable::set_routing: hands routes.values() to KVM_SET_GSI_ROUTING
\* in one call; accepted is the hypervisor's answer. ok: the Result; table: the
\* table the hypervisor holds afterwards; calls: the answers of the calls issued.
set_routing(map, table, accepted) ==
    [ok |-> accepted, table |-> IF accepted THEN Range(map) ELSE table, calls |-> <<accepted>>]

\* The result of a call: Ok(val) or an error kind.
Ok(v) == [kind |-> "Ok", val |-> v]
Err(e) == [kind |-> e, val |-> 0]

\* What a routing call returns to the model: the table state after it (t), its
\* result (res), the answer to every set_gsi_routing call it issued (commits),
\* the pins the pools handed out, and the map after the XT-PIC step (mid).
Outcome(rt, io, pic, table, res, commits, pic_pin, ioapic_pin, mid) ==
    [t |-> [routes |-> rt, ioapic |-> io, xt_pic |-> pic, kvm |-> table],
     res |-> res, commits |-> commits, pic_pin |-> pic_pin, ioapic_pin |-> ioapic_pin,
     mid |-> mid]

\* KvmIrqRoutingTable::route_msi
route_msi(t, gsi, high_addr, low_addr, data, devid, accepted) ==
    LET entry == MsiEntry(gsi, low_addr, high_addr, data, devid)
        key == hash_key(entry)
        inserted == Insert(t.routes, key, entry)
        c == set_routing(inserted, t.kvm, accepted)
    IN  IF c.ok
        THEN Outcome(inserted, t.ioapic, t.xt_pic, c.table, Ok(0), c.calls,
                     None, None, t.routes)
        ELSE Outcome(Remove(inserted, key), t.ioapic, t.xt_pic, c.table,
                     Err("GsiRoutingError"), c.calls, None, None, t.routes)

\* KvmIrqRoutingTable::route_intx
route_intx(t, gsi, pin, accepted) ==
    LET a == IoApic_allocate_pin(t.ioapic, TRUE, pin)
        entry == IrqchipEntry(gsi, KVM_IRQCHIP_IOAPIC, Unwrap(a.pin))
        key == hash_key(entry)
        inserted == Insert(t.routes, key, entry)
        c == set_routing(inserted, t.kvm, accepted)
    IN  IF a.panic
        THEN Outcome(t.routes, t.ioapic, t.xt_pic, t.kvm, Err("Panic"), <<>>, None, None,
                     t.routes)
        ELSE IF ~IsSome(a.pin)
        THEN Outcome(t.routes, a.io, t.xt_pic, t.kvm, Err("PinAllocationError"), <<>>,
                     None, None, t.routes)
        ELSE IF c.ok
        THEN Outcome(inserted, a.io, t.xt_pic, c.table, Ok(Unwrap(a.pin)), c.calls,
                     None, a.pin, t.routes)
        ELSE Outcome(Remove(inserted, key), a.io, t.xt_pic, c.table,
                     Err("GsiRoutingError"), c.calls, None, a.pin, t.routes)

\* Mutant of PicEntry: the two chips are swapped.
PicEntry_swapped(gsi, pic_pin) ==
    IF pic_pin <= 7
    THEN [gsi |-> gsi, type |-> KVM_IRQ_ROUTING_IRQCHIP, flags |-> 0,
          u |-> <<KVM_IRQCHIP_PIC_SLAVE, pic_pin, 0, 0>>]
    ELSE [gsi |-> gsi, type |-> KVM_IRQ_ROUTING_IRQCHIP, flags |-> 0,
          u |-> <<KVM_IRQCHIP_PIC_MASTER, pic_pin - 8, 0, 0>>]

\* route_generic, lines 189-206: the XT-PIC entry for pic_pin
PicEntry(gsi, pic_pin) ==
    IF pic_pin <= 7
    THEN IrqchipEntry(gsi, KVM_IRQCHIP_PIC_MASTER, pic_pin)
    ELSE IrqchipEntry(gsi, KVM_IRQCHIP_PIC_SLAVE, pic_pin - 8)

\* route_generic, lines 232-238: the IO-APIC entry for ioapic_pin
IoApicEntry(gsi, ioapic_pin) == IrqchipEntry(ioapic_pin, KVM_IRQCHIP_IOAPIC, ioapic_pin)

\* route_generic, lines 245-255: interrupt_line once the IO-APIC entry was
\* inserted and its commit answered
GenericLine(interrupt_line, ioapic_pin, committed) ==
    IF committed THEN Some(ioapic_pin) ELSE interrupt_line

\* Mutant of GenericResult: a line above the XT-PIC range is reported as no line.
GenericResult_picOnly(interrupt_line) ==
    IF interrupt_line # <<>> /\ interrupt_line[1] <= PIC_MAX
    THEN [kind |-> "Ok", val |-> interrupt_line[1]]
    ELSE [kind |-> "PinAllocationError", val |-> 0]

\* route_generic, line 261: interrupt_line.ok_or(Error::PinAllocationError)
GenericResult(interrupt_line) ==
    IF IsSome(interrupt_line) THEN Ok(Unwrap(interrupt_line)) ELSE Err("PinAllocationError")

\* KvmIrqRoutingTable::route_generic; accepted1 answers the commit of the XT-PIC
\* entry, accepted2 the commit of the IO-APIC entry (when issued).
route_generic(t, gsi, pin, accepted1, accepted2) ==
    LET p == XtPic_allocate_pin(t.xt_pic, pin)
        pic_entry == PicEntry(gsi, Unwrap(p.pin))
        pkey == hash_key(pic_entry)
        pinserted == Insert(t.routes, pkey, pic_entry)
        c1 == set_routing(pinserted, t.kvm, accepted1)
    IN  IF IsSome(p.pin) /\ ~c1.ok
        THEN \* set_routing failed: remove the key and return through `?`
             Outcome(Remove(pinserted, pkey), t.ioapic, p.pic, c1.table,
                     Err("GsiRoutingError"), c1.calls, p.pin, None,
                     Remove(pinserted, pkey))
        ELSE
        LET rt1 == IF IsSome(p.pin) THEN pinserted ELSE t.routes
            kvm1 == IF IsSome(p.pin) THEN c1.table ELSE t.kvm
            commits1 == IF IsSome(p.pin) THEN c1.calls ELSE <<>>
            interrupt_line == p.pin
            ioapic_request_pin == IF IsSome(p.pin) THEN p.pin ELSE pin
            a == IoApic_allocate_pin(t.ioapic, FALSE, ioapic_request_pin)
            ioapic_entry == IoApicEntry(gsi, Unwrap(a.pin))
            key == hash_key(ioapic_entry)
            inserted == Insert(rt1, key, ioapic_entry)
            c2 == set_routing(inserted, kvm1, accepted2)
            line == GenericLine(interrupt_line, Unwrap(a.pin), c2.ok)
        IN  IF ~IsSome(a.pin)
            THEN Outcome(rt1, a.io, p.pic, kvm1, GenericResult(interrupt_line),
                         commits1, p.pin, None, rt1)
            ELSE IF c2.ok
            THEN Outcome(inserted, a.io, p.pic, c2.table, GenericResult(line),
                         commits1 \o c2.calls, p.pin, a.pin, rt1)
            ELSE Outcome(Remove(inserted, key), a.io, p.pic, c2.table,
                         IF ~IsSome(interrupt_line) THEN Err("GsiRoutingError")
                         ELSE GenericResult(line),
                         commits1 \o c2.calls, p.pin, a.pin, rt1)

(***************************************************************************)
(* vm-allocator/src/gsi.rs                                                 *)
(***************************************************************************)
\* The allocator's u32 fields are kept as two 16-bit halves <<high, low>>, which
\* reach the top of the u32 range.
HALF == 65536
U32(n) == <<n \div HALF, n % HALF>>
U32_MAX == <<HALF - 1, HALF - 1>>
U32Gt(a, b) == a[1] > b[1] \/ (a[1] = b[1] /\ a[2] > b[2])

\* u32::wrapping_add: the sum modulo 2^32
wrapping_add(a, n) ==
    LET low == a[2] + n
    IN  <<(a[1] + (low \div HALF)) % HALF, low % HALF>>

\* u32::checked_add that never fails
checked_add_wrapping(a, n) == Some(wrapping_add(a, n))

\* u32::checked_add: None when the sum leaves the u32 range
checked_add(a, n) ==
    IF a[1] + ((a[2] + n) \div HALF) >= HALF THEN None ELSE Some(wrapping_add(a, n))

\* The number a u32 stands for, where the integers of the model hold it.
U32Value(a) == a[1] * HALF + a[2]

\* DefaultGsiAllocator::new: next_gsi on x86_64
GsiAllocator_new == U32(IRQ_MAX + 1)

\* Mutant of allocate_gsi: the cursor is not advanced.
allocate_gsi_stuck(cursor) ==
    IF cursor = U32_MAX
    THEN [res |-> [kind |-> "Overflow", val |-> 0], next_gsi |-> cursor]
    ELSE [res |-> [kind |-> "Ok", val |-> cursor], next_gsi |-> cursor]

\* DefaultGsiAllocator::allocate_gsi on the cursor next_gsi: Overflow at u32::MAX
\* with the cursor left alone, else the cursor is returned and advanced.
allocate_gsi(cursor) ==
    LET next == checked_add(cursor, 1)
    IN  IF next = None
        THEN [res |-> Err("Overflow"), next_gsi |-> cursor]
        ELSE [res |-> Ok(cursor), next_gsi |-> Unwrap(next)]

\* DefaultGsiAllocator::new on x86_64
DefaultGsiAllocator_new(max_irq) ==
    [next_irq |-> U32(IRQ_BASE), next_gsi |-> U32(IRQ_MAX + 1), max_irq |-> max_irq]

\* DefaultGsiAllocator::allocate_gsi: [res, a |-> the allocator after, panic]
DefaultGsiAllocator_allocate_gsi(a) ==
    LET next == checked_add(a.next_gsi, 1)
    IN  IF next = None
        THEN [res |-> Err("Overflow"), a |-> a, panic |-> FALSE]
        ELSE [res |-> Ok(a.next_gsi), a |-> [a EXCEPT !.next_gsi = Unwrap(next)],
              panic |-> FALSE]

\* DefaultGsiAllocator::allocate_irq.  The cursor is advanced with a plain
\* `self.next_gsi + 1`: at next_gsi = u32::MAX a build with overflow checks
\* panics and a build without them wraps to 0.
DefaultGsiAllocator_allocate_irq(a, overflow_checks) ==
    IF U32Gt(a.next_irq, a.max_irq)
    THEN [res |-> Err("Overflow"), a |-> a, panic |-> FALSE]
    ELSE IF a.next_gsi = U32_MAX /\ overflow_checks
    THEN [res |-> Err("panic"), a |-> a, panic |-> TRUE]
    ELSE [res |-> Ok(a.next_irq), a |-> [a EXCEPT !.next_irq = wrapping_add(a.next_gsi, 1)],
          panic |-> FALSE]

(***************************************************************************)
(* The routing table as a state machine: the three public mutations called *)
(* in any order with any arguments, the hypervisor free to reject any      *)
(* commit.                                                                 *)
(***************************************************************************)
Gsis == {3, 32}                          \* GSIs the callers pass
PinArgs == {None, Some(1), Some(2)}      \* requested pins the callers pass
MsiCfgs == {[high_addr |-> 1, low_addr |-> 2, data |-> 3, devid |-> 4],
            [high_addr |-> 5, low_addr |-> 6, data |-> 7, devid |-> 8]}
NoCfg == [high_addr |-> 0, low_addr |-> 0, data |-> 0, devid |-> 0]

Table == [routes |-> routes, ioapic |-> ioapic, xt_pic |-> xt_pic, kvm |-> kvm]

NoCall == [api |-> "none", op |-> "none", gsi |-> 0, pin |-> None, cfg |-> NoCfg, res |-> Ok(0),
           commits |-> <<>>, pic_pin |-> None, ioapic_pin |-> None,
           pre_routes |-> EmptyMap, pre_kvm |-> {}, mid |-> EmptyMap,
           irq |-> 0, ret |-> Ok(0), pre_irqs |-> <<>>, pre_fds |-> {}]

\* No allocate_pin call made yet on either pool.
NoPins == [ioapic |-> <<>>, xt_pic |-> <<>>]

\* A thread with no call in flight.
Idle == [pc |-> "idle", op |-> "none", irq |-> 0, cfg |-> NoCfg, ret |-> Ok(0),
         added |-> {}, overlapped |-> FALSE]
NoSnap == [stage |-> "none", i |-> 0, irq |-> 0, routes |-> EmptyMap, kvm |-> {}]

Summary(call) == [op |-> call.op, gsi |-> call.gsi, pin |-> call.pin, res |-> call.res,
                  commits |-> call.commits]

\* Everything but the GSI allocators, as constructed.
InitBare ==
    /\ routes = EmptyMap
    /\ ioapic = IoApic_new
    /\ xt_pic = XtPic_new
    /\ kvm = {}                 \* KvmIrqRoutingTable::new committed the empty table
    /\ irqs = <<>>
    /\ irqfds = {}
    /\ crashed = FALSE
    /\ nops = 0
    /\ rejects = 0
    /\ last = NoCall
    /\ prev = Summary(NoCall)
    /\ fdlog = <<>>
    /\ snap = NoSnap
    /\ threads = [t \in 1..MaxThreads |-> Idle]
    /\ mutex = 0
    /\ pinlog = NoPins
    /\ gsilog = <<>>
    /\ routed = {}
    /\ groups = <<>>
    /\ gsi_mutex = 0
    /\ boot = 0

\* The groups' GSI allocator is fresh.
InitTable == InitBare /\ next_gsi = GsiAllocator_new

Init ==
    /\ InitTable
    /\ allocator = DefaultGsiAllocator_new(U32(IRQ_MAX))   \* as DefaultSystemAllocator builds it
    /\ solo = allocator

\* The effect of a routing call with outcome o on the table and on the record of
\* the last call.
Applied(o, api, op, gsi, pin, cfg, irq, ret) ==
    /\ routes' = o.t.routes
    /\ ioapic' = o.t.ioapic
    /\ xt_pic' = o.t.xt_pic
    /\ kvm' = o.t.kvm
    /\ crashed' = (o.res.kind = "Panic")
    /\ nops' = nops + 1
    /\ rejects' = rejects + Cardinality({i \in 1..Len(o.commits) : ~o.commits[i]})
    /\ last' = [api |-> api, op |-> op, gsi |-> gsi, pin |-> pin, cfg |-> cfg, res |-> o.res,
                commits |-> o.commits, pic_pin |-> o.pic_pin, ioapic_pin |-> o.ioapic_pin,
                pre_routes |-> routes, pre_kvm |-> kvm, mid |-> o.mid,
                irq |-> irq, ret |-> ret, pre_irqs |-> irqs, pre_fds |-> irqfds]

RouteMsi(gsi, cfg, accepted) ==
    /\ ~crashed /\ nops < MaxOps
    /\ Applied(route_msi(Table, gsi, cfg.high_addr, cfg.low_addr, cfg.data, cfg.devid,
                         accepted),
               "table", "route_msi", gsi, None, cfg, 0, Ok(0))
    /\ prev' = Summary(last)
    /\ UNCHANGED <<irqs, irqfds, next_gsi, aux, life, conc>>

RouteIntx(gsi, pin, accepted) ==
    /\ ~crashed /\ nops < MaxOps
    /\ Applied(route_intx(Table, gsi, pin, accepted),
               "table", "route_intx", gsi, pin, NoCfg, 0, Ok(0))
    /\ prev' = Summary(last)
    /\ UNCHANGED <<irqs, irqfds, next_gsi, aux, life, conc>>

RouteGeneric(gsi, pin, accepted1, accepted2) ==
    /\ ~crashed /\ nops < MaxOps
    /\ Applied(route_generic(Table, gsi, pin, accepted1, accepted2),
               "table", "route_generic", gsi, pin, NoCfg, 0, Ok(0))
    /\ prev' = Summary(last)
    /\ UNCHANGED <<irqs, irqfds, next_gsi, aux, life, conc>>

Next ==
    \/ \E gsi \in Gsis, cfg \in MsiCfgs, accepted \in BOOLEAN : RouteMsi(gsi, cfg, accepted)
    \/ \E gsi \in Gsis, pin \in PinArgs, accepted \in BOOLEAN : RouteIntx(gsi, pin, accepted)
    \/ \E gsi \in Gsis, pin \in PinArgs, accepted1 \in BOOLEAN, accepted2 \in BOOLEAN :
           RouteGeneric(gsi, pin, accepted1, accepted2)

Spec == Init /\ [][Next]_vars

(***************************************************************************)
(* The same table driven until its pin pools run dry: route_generic called *)
(* for one GSI with no requested pin or with the chained pin 2 (which no   *)
(* pool holds), the hypervisor rejecting at most MaxRejects commits.       *)
(***************************************************************************)
DrainGsis == {32}
DrainPins == {None, Some(CHAIN_PIN)}

DrainGeneric(gsi, pin, accepted1, accepted2) ==
    /\ ~crashed /\ nops < MaxDrainOps
    /\ LET o == route_generic(Table, gsi, pin, accepted1, accepted2)
       IN  /\ rejects + Cardinality({i \in 1..Len(o.commits) : ~o.commits[i]}) <= MaxRejects
           /\ Applied(o, "table", "route_generic", gsi, pin, NoCfg, 0, Ok(0))
    /\ UNCHANGED <<irqs, irqfds, next_gsi, aux, prev, life, conc>>

NextDrain ==
    \E gsi \in DrainGsis, pin \in DrainPins, accepted1 \in BOOLEAN, accepted2 \in BOOLEAN :
        DrainGeneric(gsi, pin, accepted1, accepted2)

SpecDrain == Init /\ [][NextDrain]_vars

(***************************************************************************)
(* Properties of the routing table (checked under Spec).                   *)
(***************************************************************************)
PublicOps == {"route_msi", "route_intx", "route_generic"}
Succeeded == last.op \in PublicOps /\ last.res.kind = "Ok"
Failed == last.op \in PublicOps /\ last.res.kind \in {"GsiRoutingError", "PinAllocationError"}
AllAccepted(commits) == \A i \in 1..Len(commits) : commits[i]
SameEntries(m1, m2) == DOMAIN m1 = DOMAIN m2 /\ \A k \in DOMAIN m1 : m1[k] = m2[k]
IsIrqchip(e, chip, pin) ==
    e.type = KVM_IRQ_ROUTING_IRQCHIP /\ e.u[1] = chip /\ e.u[2] = pin

\* C1: after every public mutation that returned success, the table the hypervisor
\* accepted last holds exactly the entries of the in-memory route map.
C1_CommittedEqualsMap == Succeeded => kvm = Range(routes)

\* C2: after a public mutation that returned an error, the route map has the
\* entries it had before the call and the hypervisor's table is unchanged.
C2_FailureRollsBack ==
    Failed => SameEntries(routes, last.pre_routes) /\ kvm = last.pre_kvm

\* C3 as stated: every public mutation that returned success issued exactly one
\* set_gsi_routing commit.
C3_OneCommitPerSuccess == Succeeded => Len(last.commits) = 1

\* C3 amended: a successful route_msi or route_intx issued exactly one commit; a
\* successful route_generic issued one commit per pin it obtained: one when only
\* one pool gave a pin, two when both did.
C3_CommitPerEntry ==
    Succeeded =>
        IF last.op = "route_generic"
        THEN Len(last.commits) = Len(last.pic_pin) + Len(last.ioapic_pin)
             /\ Len(last.commits) \in {1, 2}
        ELSE Len(last.commits) = 1

C3_Witness ==
    /\ Succeeded /\ last.op = "route_generic"
    /\ IsSome(last.pic_pin) /\ IsSome(last.ioapic_pin)
    /\ last.commits = <<TRUE, TRUE>>

\* C4: on a fresh table, route_generic(gsi, None) with the hypervisor accepting
\* returns Ok(1), and the committed table holds exactly two entries: IRQCHIP on
\* PIC_MASTER pin 1 and IRQCHIP on IO_APIC pin 1.
C4_FreshRouteGeneric ==
    (nops = 1 /\ last.op = "route_generic" /\ last.pin = None /\ AllAccepted(last.commits))
    => /\ last.res = Ok(1)
       /\ Cardinality(kvm) = 2
       /\ \E e \in kvm : IsIrqchip(e, KVM_IRQCHIP_PIC_MASTER, 1)
       /\ \E e \in kvm : IsIrqchip(e, KVM_IRQCHIP_IOAPIC, 1)

C4_Witness ==
    nops = 1 /\ last.op = "route_generic" /\ last.pin = None /\ last.commits = <<TRUE, TRUE>>

\* C5: a second route_generic(gsi, None) with the same gsi, after the first one
\* succeeded on a fresh table, returns Ok(3) and leaves four entries in the map,
\* the two of the first call among them.
C5_SecondCallAddsTwo ==
    (/\ nops = 2
     /\ last.op = "route_generic" /\ prev.op = "route_generic"
     /\ last.gsi = prev.gsi /\ last.pin = None /\ prev.pin = None
     /\ prev.commits = <<TRUE, TRUE>> /\ last.commits = <<TRUE, TRUE>>)
    => /\ last.res = Ok(3)
       /\ Cardinality(DOMAIN routes) = 4
       /\ \A k \in DOMAIN last.pre_routes :
              k \in DOMAIN routes /\ routes[k] = last.pre_routes[k]

\* C6: a route_generic that obtained a PIC pin and succeeded returns that PIC pin.
C6_ReturnsPicPin ==
    (Succeeded /\ last.op = "route_generic" /\ IsSome(last.pic_pin))
    => last.res.val = Unwrap(last.pic_pin)

\* C7: when route_generic committed the PIC entry and the hypervisor rejected the
\* commit with the IO-APIC entry, the call returns Ok with the PIC pin, the
\* IO-APIC entry's key is gone from the map (no other key is removed), every
\* other entry is as after the PIC step, and the PIC entry is in the map and in
\* the hypervisor's table, which is the table of the PIC step.
C7_PartialSuccess ==
    (last.op = "route_generic" /\ last.commits = <<TRUE, FALSE>>)
    => LET pic == Unwrap(last.pic_pin)
           chip == IF pic <= 7 THEN KVM_IRQCHIP_PIC_MASTER ELSE KVM_IRQCHIP_PIC_SLAVE
           pkey == <<chip, KVM_IRQ_ROUTING_IRQCHIP, last.gsi>>
           iokeys == {k \in DOMAIN last.mid \cup DOMAIN routes :
                         k \notin DOMAIN routes \/ k \notin DOMAIN last.mid}
       IN  /\ last.res = Ok(pic)
           /\ DOMAIN routes \subseteq DOMAIN last.mid
           /\ \A k \in DOMAIN routes : routes[k] = last.mid[k]
           /\ Cardinality(iokeys) <= 1
           /\ \A k \in iokeys : k[1] = KVM_IRQCHIP_IOAPIC
           /\ \A k \in DOMAIN routes : k # <<KVM_IRQCHIP_IOAPIC, KVM_IRQ_ROUTING_IRQCHIP,
                                            Unwrap(last.ioapic_pin)>>
           /\ pkey \in DOMAIN routes /\ routes[pkey].gsi = last.gsi
           /\ IsIrqchip(routes[pkey], chip, IF pic <= 7 THEN pic ELSE pic - 8)
           /\ routes[pkey] \in kvm
           /\ kvm = Range(last.mid)

C7_Witness ==
    /\ last.op = "route_generic" /\ last.commits = <<TRUE, FALSE>>
    /\ last.res.kind = "Ok"

\* C18: a successful route_msi leaves exactly one MSI entry for its gsi, carrying
\* the arguments of that call, and every other entry as it was: a call for a gsi
\* already routed keeps the number of entries, a call for a new gsi adds one.
\* Two successful calls in a row leave one entry when their gsi is the same and
\* two when it differs.
C18_RouteMsiUpsert ==
    /\ (last.api = "table" /\ last.op = "route_msi" /\ last.res.kind = "Ok")
       => LET key == <<0, KVM_IRQ_ROUTING_MSI, last.gsi>>
              msi == {k \in DOMAIN routes : routes[k].type = KVM_IRQ_ROUTING_MSI
                                            /\ routes[k].gsi = last.gsi}
          IN  /\ msi = {key}
              /\ routes[key].u = <<last.cfg.low_addr, last.cfg.high_addr, last.cfg.data,
                                   last.cfg.devid>>
              /\ DOMAIN routes = DOMAIN last.pre_routes \cup {key}
              /\ \A k \in DOMAIN routes \ {key} : routes[k] = last.pre_routes[k]
              /\ Cardinality(DOMAIN routes) =
                     IF key \in DOMAIN last.pre_routes
                     THEN Cardinality(DOMAIN last.pre_routes)
                     ELSE Cardinality(DOMAIN last.pre_routes) + 1
    /\ (/\ nops = 2 /\ last.op = "route_msi" /\ prev.op = "route_msi"
        /\ last.res.kind = "Ok" /\ prev.res.kind = "Ok")
       => Cardinality(DOMAIN routes) = IF last.gsi = prev.gsi THEN 1 ELSE 2

C18_Witness ==
    /\ last.api = "table" /\ last.op = "route_msi" /\ last.res.kind = "Ok"
    /\ prev.op = "route_msi" /\ prev.res.kind = "Ok" /\ prev.gsi = last.gsi
    /\ last.pre_routes[<<0, KVM_IRQ_ROUTING_MSI, last.gsi>>].u[1] # last.cfg.low_addr

\* C36: when route_generic obtained a PIC pin and the hypervisor rejected the
\* commit of the PIC entry, the PIC entry is removed and the call goes on to the
\* IO-APIC step: it takes an IO-APIC pin if one is left and commits again, and
\* returns Ok with the IO-APIC pin when that commit is accepted.
C36_PicRejectionContinues ==
    (/\ last.op = "route_generic" /\ IsSome(last.pic_pin)
     /\ Len(last.commits) >= 1 /\ ~last.commits[1])
    => /\ \A k \in DOMAIN routes : k[1] \in {KVM_IRQCHIP_PIC_MASTER, KVM_IRQCHIP_PIC_SLAVE}
              => (k \in DOMAIN last.pre_routes /\ routes[k] = last.pre_routes[k])
       /\ ioapic.available_pins # {} => (IsSome(last.ioapic_pin) /\ Len(last.commits) = 2)
       /\ (Len(last.commits) = 2 /\ last.commits[2]) => last.res = Ok(Unwrap(last.ioapic_pin))

\* The keys whose entry the last call placed in the map or replaced.
PlacedKeys ==
    {k \in DOMAIN routes : k \notin DOMAIN last.pre_routes \/ routes[k] # last.pre_routes[k]}

\* C37: every entry that route_generic(gsi, ..), route_intx(gsi, ..) or
\* route_msi(gsi, ..) placed in the map carries the caller's gsi in its gsi field.
C37_EntriesCarryGsi ==
    last.op \in PublicOps => \A k \in PlacedKeys : routes[k].gsi = last.gsi

\* The XT-PIC pin an entry on the master or the slave PIC stands for.
RawPicPin(e) == IF e.u[1] = KVM_IRQCHIP_PIC_SLAVE THEN e.u[2] + 8 ELSE e.u[2]

\* C38: every IRQCHIP entry in the map names a pin that is reserved in its pool:
\* an IO-APIC entry's pin is not in the IO-APIC available set, a PIC entry's raw
\* pin (pin on the master, pin + 8 on the slave) is not in the XT-PIC available set.
C38_EntryPinsReserved ==
    \A k \in DOMAIN routes :
        routes[k].type = KVM_IRQ_ROUTING_IRQCHIP
        => IF routes[k].u[1] = KVM_IRQCHIP_IOAPIC
           THEN routes[k].u[2] \notin ioapic.available_pins
           ELSE RawPicPin(routes[k]) \notin xt_pic

C38_Witness ==
    /\ \E k \in DOMAIN routes : IsIrqchip(routes[k], KVM_IRQCHIP_PIC_MASTER, 3)
    /\ \E k \in DOMAIN routes :
           /\ routes[k].type = KVM_IRQ_ROUTING_IRQCHIP /\ routes[k].u[1] = KVM_IRQCHIP_IOAPIC
           /\ routes[k].u[2] \in SeqRange(ioapic.shared_pins)
    /\ \E k \in DOMAIN routes :
           /\ routes[k].type = KVM_IRQ_ROUTING_IRQCHIP /\ routes[k].u[1] = KVM_IRQCHIP_IOAPIC
           /\ routes[k].u[2] \notin SeqRange(ioapic.shared_pins)
    /\ rejects > 0

(***************************************************************************)
(* Properties of route_generic on a draining table (checked under          *)
(* SpecDrain).                                                             *)
(***************************************************************************)
\* C8: route_generic returns PinAllocationError exactly when neither the XT-PIC
\* nor the IO-APIC pool gave a pin, and then the route map and the hypervisor's
\* table are unchanged and no commit was issued.
C8_PinAllocationError ==
    last.op = "route_generic" =>
        /\ (last.res.kind = "PinAllocationError")
               <=> (~IsSome(last.pic_pin) /\ ~IsSome(last.ioapic_pin))
        /\ (last.res.kind = "PinAllocationError") =>
               /\ SameEntries(routes, last.pre_routes)
               /\ kvm = last.pre_kvm
               /\ last.commits = <<>>

C8_Witness ==
    /\ last.op = "route_generic" /\ last.res.kind = "PinAllocationError"
    /\ ioapic.available_pins = {} /\ xt_pic = {}
    /\ DOMAIN routes # {}

(***************************************************************************)
(* interrupts/mod.rs: the interrupt objects                                *)
(***************************************************************************)
\* KvmMsiInterrupt::new / KvmLegacyInterrupt::new over KvmInterrupt::new
NewInterrupt(kind, gsi) ==
    [kind |-> kind, gsi |-> gsi, registered |-> FALSE, configured |-> FALSE, config |-> None]

\* KvmInterrupt::new: EventFd::new fails or the interrupt is built
KvmInterrupt_new(kind, gsi, eventfd_ok) ==
    IF eventfd_ok THEN Ok(NewInterrupt(kind, gsi)) ELSE Err("io")

\* Kvm{Msi,Legacy}Interrupt::new: KvmInterrupt::new(...).unwrap()
KvmGroupInterrupt_new(kind, gsi, eventfd_ok) ==
    LET built == KvmInterrupt_new(kind, gsi, eventfd_ok)
    IN  IF built.kind = "Ok" THEN built ELSE Err("Panic")

\* One turn of the loop of allocate_interrupts: allocate_gsi().unwrap(), then
\* Kvm*Interrupt::new(...).unwrap(). [res |-> what the failing step returned,
\* ret |-> the interrupt or the panic, next_gsi |-> the cursor after]
AllocateOne(cursor, kind, eventfd_ok) ==
    LET g == allocate_gsi(cursor)
    IN  IF g.res.kind # "Ok"
        THEN [res |-> g.res, ret |-> Err("Panic"), next_gsi |-> g.next_gsi]
        ELSE [res |-> KvmInterrupt_new(kind, U32Value(g.res.val), eventfd_ok),
              ret |-> KvmGroupInterrupt_new(kind, U32Value(g.res.val), eventfd_ok),
              next_gsi |-> g.next_gsi]

\* Kvm{Msi,Legacy}InterruptGroup::allocate_interrupts: size times allocate a GSI,
\* construct an interrupt, push it; the fail-th EventFd::new of the call fails
\* (none when fail = 0). ret is Ok or the panic of an unwrap, res what the
\* failing step had returned.
RECURSIVE allocate_interrupts(_, _, _, _, _)
allocate_interrupts(interrupts, cursor, kind, size, fail) ==
    IF size = 0
    THEN [interrupts |-> interrupts, next_gsi |-> cursor, ret |-> Ok(0), res |-> Ok(0)]
    ELSE LET one == AllocateOne(cursor, kind, fail # 1)
         IN  IF one.ret.kind # "Ok"
             THEN [interrupts |-> interrupts, next_gsi |-> one.next_gsi, ret |-> one.ret,
                   res |-> [kind |-> one.res.kind, val |-> 0]]
             ELSE allocate_interrupts(Append(interrupts, one.ret.val), one.next_gsi, kind,
                                      size - 1, fail - 1)

\* A call that leaves the routing table alone.
Untouched(t) == Outcome(t.routes, t.ioapic, t.xt_pic, t.kvm, Ok(0), <<>>, None, None, t.routes)

\* KvmMsiInterrupt::update, lines 95-103: what it does once the registered flag
\* was read as false, under the table's lock
KvmMsiInterrupt_route(t, irq, cfg, accepted) ==
    [o |-> route_msi(t, irq.gsi, cfg.low_addr, cfg.high_addr, cfg.data, cfg.devid, accepted),
     op |-> "route_msi", pin |-> None, irq |-> irq, ret |-> Ok(0)]

\* Mutant of KvmMsiInterrupt_update: the registered flag is not consulted.
KvmMsiInterrupt_update_unchecked(t, irq, cfg, accepted) ==
    [o |-> route_msi(t, irq.gsi, cfg.low_addr, cfg.high_addr, cfg.data, cfg.devid, accepted),
     op |-> "route_msi", pin |-> None, irq |-> irq, ret |-> [kind |-> "Ok", val |-> 0]]

\* KvmMsiInterrupt::update: [o |-> the routing outcome, op |-> the routing call
\* made, pin |-> the pin it was asked for, irq |-> the interrupt after,
\* ret |-> what update returns]
KvmMsiInterrupt_update(t, irq, cfg, accepted) ==
    IF irq.registered
    THEN [o |-> Untouched(t), op |-> "none", pin |-> None, irq |-> irq,
          ret |-> Err("InvalidConfiguration")]
    ELSE KvmMsiInterrupt_route(t, irq, cfg, accepted)

\* Mutant of KvmLegacyInterrupt_update: the requested line is not passed on.
KvmLegacyInterrupt_update_anyline(t, irq, cfg, accepted1, accepted2) ==
    LET o == route_generic(t, irq.gsi, <<>>, accepted1, accepted2)
    IN  [o |-> o, op |-> "route_generic", pin |-> cfg.interrupt_line,
         irq |-> [irq EXCEPT !.config = <<[interrupt_line |-> <<o.res>>, interrupt_pin |-> <<>>]>>,
                             !.configured = TRUE],
         ret |-> [kind |-> "Ok", val |-> 0]]

\* KvmLegacyInterrupt::update
KvmLegacyInterrupt_update(t, irq, cfg, accepted1, accepted2) ==
    IF IsSome(cfg.interrupt_pin)
    THEN LET o == route_intx(t, irq.gsi, cfg.interrupt_line, accepted1)
         IN  IF o.res.kind = "Panic"
             THEN [o |-> o, op |-> "route_intx", pin |-> cfg.interrupt_line, irq |-> irq,
                   ret |-> Err("Panic")]
             ELSE [o |-> o, op |-> "route_intx", pin |-> cfg.interrupt_line,
                   irq |-> [irq EXCEPT !.config = Some(cfg), !.configured = TRUE],
                   ret |-> Ok(0)]
    ELSE LET o == route_generic(t, irq.gsi, cfg.interrupt_line, accepted1, accepted2)
             line == o.res
         IN  [o |-> o, op |-> "route_generic", pin |-> cfg.interrupt_line,
              irq |-> [irq EXCEPT !.config = Some([interrupt_line |-> Some(line),
                                                   interrupt_pin |-> None]),
                                  !.configured = TRUE],
              ret |-> Ok(0)]

\* vm_fd.register_irqfd(&irq_fd, gsi) as the hypervisor answers it: fd is the pair
\* <<interrupt, gsi>>; an fd already assigned to the gsi is refused, and answer is
\* the hypervisor's verdict otherwise. [ok, fds |-> the fds registered after,
\* calls |-> the call as the hypervisor saw it]
vm_register_irqfd(fds, fd, answer) ==
    LET ok == answer /\ fd \notin fds
    IN  [ok |-> ok, fds |-> IF ok THEN fds \cup {fd} ELSE fds,
         calls |-> <<[call |-> "register", fd |-> fd, ok |-> ok]>>]

\* vm_fd.unregister_irqfd(&irq_fd, gsi): the hypervisor accepts the deassign
\* whether or not it holds the fd; answer is FALSE when the call itself fails.
vm_unregister_irqfd(fds, fd, answer) ==
    LET ok == answer
    IN  [ok |-> ok, fds |-> IF ok THEN fds \ {fd} ELSE fds,
         calls |-> <<[call |-> "unregister", fd |-> fd, ok |-> ok]>>]

\* Mutant of register_irqfd: the registered flag is not consulted.
register_irqfd_unguarded(irq, i, fds, answer) ==
    IF answer
    THEN [irq |-> [irq EXCEPT !.registered = TRUE], fds |-> fds \cup {<<i, irq.gsi>>},
          ret |-> [kind |-> "Ok", val |-> 0],
          calls |-> <<[call |-> "register", fd |-> <<i, irq.gsi>>, ok |-> TRUE]>>]
    ELSE [irq |-> irq, fds |-> fds, ret |-> [kind |-> "io", val |-> 0],
          calls |-> <<[call |-> "register", fd |-> <<i, irq.gsi>>, ok |-> FALSE]>>]

\* KvmInterrupt::register_irqfd for interrupt number i; answer is the hypervisor's.
\* calls: the hypervisor calls it made.
register_irqfd(irq, i, fds, answer) ==
    IF ~irq.registered
    THEN LET h == vm_register_irqfd(fds, <<i, irq.gsi>>, answer)
         IN  IF h.ok
             THEN [irq |-> [irq EXCEPT !.registered = TRUE], fds |-> h.fds, ret |-> Ok(0),
                   calls |-> h.calls]
             ELSE [irq |-> irq, fds |-> h.fds, ret |-> Err("io"), calls |-> h.calls]
    ELSE [irq |-> irq, fds |-> fds, ret |-> Ok(0), calls |-> <<>>]

\* Mutant of unregister_irqfd: the store of the registered flag is dropped.
unregister_irqfd_keepflag(irq, i, fds, answer) ==
    IF irq.registered
    THEN [irq |-> irq, fds |-> IF answer THEN fds \ {<<i, irq.gsi>>} ELSE fds,
          ret |-> [kind |-> IF answer THEN "Ok" ELSE "io", val |-> 0],
          calls |-> <<[call |-> "unregister", fd |-> <<i, irq.gsi>>, ok |-> answer]>>]
    ELSE [irq |-> irq, fds |-> fds, ret |-> [kind |-> "Ok", val |-> 0], calls |-> <<>>]

\* KvmInterrupt::unregister_irqfd
unregister_irqfd(irq, i, fds, answer) ==
    IF irq.registered
    THEN LET h == vm_unregister_irqfd(fds, <<i, irq.gsi>>, answer)
         IN  IF h.ok
             THEN [irq |-> [irq EXCEPT !.registered = FALSE], fds |-> h.fds, ret |-> Ok(0),
                   calls |-> h.calls]
             ELSE [irq |-> irq, fds |-> h.fds, ret |-> Err("io"), calls |-> h.calls]
    ELSE [irq |-> irq, fds |-> fds, ret |-> Ok(0), calls |-> <<>>]

\* map_err(|_| VmDeviceError::InterruptNotChanged)
NotChanged(r) == [r EXCEPT !.ret = IF r.ret.kind = "Ok" THEN Ok(0) ELSE Err("InterruptNotChanged")]

\* Mutant of Interrupt_enable: a legacy interrupt is enabled whether configured
\* or not.
Interrupt_enable_unchecked(irq, i, fds, answer) ==
    NotChanged(register_irqfd(irq, i, fds, answer))

\* KvmMsiInterrupt::enable / KvmLegacyInterrupt::enable
Interrupt_enable(irq, i, fds, answer) ==
    IF irq.kind = "legacy" /\ ~irq.configured
    THEN [irq |-> irq, fds |-> fds, ret |-> Err("InterruptNotChanged"), calls |-> <<>>]
    ELSE NotChanged(register_irqfd(irq, i, fds, answer))

\* KvmMsiInterrupt::disable / KvmLegacyInterrupt::disable
Interrupt_disable(irq, i, fds, answer) == NotChanged(unregister_irqfd(irq, i, fds, answer))

(***************************************************************************)
(* The interrupt objects as a state machine: devices allocate interrupts   *)
(* and call update, enable and disable on them in any order.               *)
(***************************************************************************)
Kinds == {"msi", "legacy"}
LegacyCfgs == {[interrupt_line |-> None, interrupt_pin |-> None],
               [interrupt_line |-> Some(4), interrupt_pin |-> None],
               [interrupt_line |-> None, interrupt_pin |-> Some(1)]}

\* The hypervisor's record of the irqfd calls of public call number n.
Logged(n, calls) == [k \in 1..Len(calls) |-> [n |-> n, call |-> calls[k]]]

\* The snapshot kept for an interrupt across disable and enable: taken when a
\* disable of the registered interrupt i returns Ok (pre is the interrupt before
\* it), marked "enabled" when an enable of i returns Ok, dropped by an update and
\* by any call that follows that enable.
SnapAfter(api, i, pre, ret) ==
    IF api = "disable" /\ pre.registered /\ ret.kind = "Ok"
    THEN [stage |-> "disabled", i |-> i, irq |-> pre, routes |-> routes, kvm |-> kvm]
    ELSE IF api = "enable" /\ snap.stage = "disabled" /\ snap.i = i /\ ret.kind = "Ok"
    THEN [snap EXCEPT !.stage = "enabled"]
    ELSE IF api \in {"enable", "disable"} /\ snap.stage = "disabled"
    THEN snap
    ELSE NoSnap

\* A device asks its group for size interrupts; limit bounds the interrupts of a run.
AllocateGroup(kind, size, limit) ==
    /\ ~crashed /\ Len(irqs) + size <= limit
    /\ \E fail \in 0..size :
           LET r == allocate_interrupts(irqs, next_gsi, kind, size, fail)
           IN  /\ irqs' = r.interrupts
               /\ next_gsi' = r.next_gsi
               /\ crashed' = (r.ret.kind = "Panic")
    /\ UNCHANGED <<aux, routes, ioapic, xt_pic, kvm, irqfds, nops, rejects, last, prev,
                   life, conc>>

AllocateInterrupts(kind, size) == AllocateGroup(kind, size, MaxIrqs)

\* Kvm{Msi,Legacy}Interrupt::get_config: the stored configuration, or
\* InvalidConfiguration while none was stored
get_config(irq) == IF IsSome(irq.config) THEN Ok(Unwrap(irq.config)) ELSE Err("InvalidConfiguration")

\* A routing call installed a route when the hypervisor accepted a table holding
\* the entry the call had just inserted (set_routing, kvm_irq_routing.rs 133-158).
Installed(o) == \E k \in DOMAIN o.commits : o.commits[k]

\* KvmMsiInterrupt::update, lines 92-94: the registered flag is read. A call that
\* finds it set returns here; any other call goes on to routing_table.lock(), and
\* until it gets there the other calls of the devices go ahead. seen is the flag
\* as it was when update was called.
UpdateMsiLoadWithin(i, cfg, limit) ==
    /\ ~crashed /\ nops < limit
    /\ irqs[i].kind = "msi" /\ threads[1].pc = "idle"
    /\ LET r == KvmMsiInterrupt_update(Table, irqs[i], cfg, TRUE)
       IN  IF r.op = "none"
           THEN /\ Applied(r.o, "update", r.op, irqs[i].gsi, r.pin, cfg, i, r.ret)
                /\ irqs' = [irqs EXCEPT ![i] = r.irq]
                /\ snap' = NoSnap
                /\ UNCHANGED threads
           ELSE /\ threads' = [threads EXCEPT ![1] =
                       [pc |-> "lock", op |-> "update", irq |-> i, cfg |-> cfg, ret |-> Ok(0),
                        added |-> {}, overlapped |-> FALSE, seen |-> irqs[i].registered]]
                /\ UNCHANGED <<routes, ioapic, xt_pic, kvm, irqs, crashed, nops, rejects, last,
                               snap>>
    /\ UNCHANGED <<irqfds, next_gsi, alloc_vars, routed, grp, prev, fdlog, mutex>>

UpdateMsiLoad(i, cfg) == UpdateMsiLoadWithin(i, cfg, MaxOps)

\* KvmMsiInterrupt::update, lines 95-103: the table is locked and route_msi
\* called, whatever became of the registered flag since it was read.
UpdateMsiRouteWithin(accepted, limit) ==
    /\ ~crashed /\ nops < limit
    /\ threads[1].pc = "lock" /\ threads[1].op = "update"
    /\ LET i == threads[1].irq
           cfg == threads[1].cfg
           r == KvmMsiInterrupt_route(Table, irqs[i], cfg, accepted)
       IN  /\ Applied(r.o, "update", r.op, irqs[i].gsi, r.pin, cfg, i, r.ret)
           /\ irqs' = [irqs EXCEPT ![i] = r.irq]
           /\ routed' = IF Installed(r.o) THEN routed \cup {i} ELSE routed
    /\ threads' = [threads EXCEPT ![1] = Idle]
    /\ snap' = NoSnap
    /\ UNCHANGED <<irqfds, next_gsi, alloc_vars, grp, prev, fdlog, mutex>>

UpdateMsiRoute(accepted) == UpdateMsiRouteWithin(accepted, MaxOps)

\* The effect of update(cfg) on legacy interrupt i.
LegacyUpdated(i, cfg, accepted1, accepted2) ==
    /\ irqs[i].kind = "legacy"
    /\ LET r == KvmLegacyInterrupt_update(Table, irqs[i], cfg, accepted1, accepted2)
       IN  /\ Applied(r.o, "update", r.op, irqs[i].gsi, r.pin, cfg, i, r.ret)
           /\ irqs' = [irqs EXCEPT ![i] = r.irq]
           /\ routed' = IF Installed(r.o) THEN routed \cup {i} ELSE routed
    /\ snap' = NoSnap
    /\ UNCHANGED <<irqfds, next_gsi, alloc_vars, groups, gsi_mutex, prev, fdlog, conc>>

UpdateLegacy(i, cfg, accepted1, accepted2) ==
    /\ ~crashed /\ nops < MaxOps
    /\ LegacyUpdated(i, cfg, accepted1, accepted2)
    /\ UNCHANGED boot

EnableWithin(i, answer, limit) ==
    /\ ~crashed /\ nops < limit
    /\ LET r == Interrupt_enable(irqs[i], i, irqfds, answer)
       IN  /\ Applied(Untouched(Table), "enable", "none", irqs[i].gsi, None, NoCfg, i, r.ret)
           /\ irqs' = [irqs EXCEPT ![i] = r.irq]
           /\ irqfds' = r.fds
           /\ fdlog' = fdlog \o Logged(nops + 1, r.calls)
           /\ snap' = SnapAfter("enable", i, irqs[i], r.ret)
    /\ UNCHANGED <<next_gsi, aux, prev, conc>>

Enable(i, answer) == EnableWithin(i, answer, MaxOps)

DisableWithin(i, answer, limit) ==
    /\ ~crashed /\ nops < limit
    /\ LET r == Interrupt_disable(irqs[i], i, irqfds, answer)
       IN  /\ Applied(Untouched(Table), "disable", "none", irqs[i].gsi, None, NoCfg, i, r.ret)
           /\ irqs' = [irqs EXCEPT ![i] = r.irq]
           /\ irqfds' = r.fds
           /\ fdlog' = fdlog \o Logged(nops + 1, r.calls)
           /\ snap' = SnapAfter("disable", i, irqs[i], r.ret)
    /\ UNCHANGED <<next_gsi, aux, prev, conc>>

Disable(i, answer) == DisableWithin(i, answer, MaxOps)

NextIrq ==
    \/ \E kind \in Kinds, size \in 1..MaxIrqs : AllocateInterrupts(kind, size)
    \/ \E i \in DOMAIN irqs, cfg \in MsiCfgs : UpdateMsiLoad(i, cfg)
    \/ \E accepted \in BOOLEAN : UpdateMsiRoute(accepted)
    \/ \E i \in DOMAIN irqs, cfg \in LegacyCfgs, accepted1 \in BOOLEAN, accepted2 \in BOOLEAN :
           UpdateLegacy(i, cfg, accepted1, accepted2)
    \/ \E i \in DOMAIN irqs, answer \in BOOLEAN : Enable(i, answer)
    \/ \E i \in DOMAIN irqs, answer \in BOOLEAN : Disable(i, answer)

SpecIrq == Init /\ [][NextIrq]_vars

(***************************************************************************)
(* The life of one interrupt: allocated, configured by update, then        *)
(* enabled, disabled and enabled again. The calls are those of SpecIrq,    *)
(* in runs long enough for the whole sequence.                             *)
(***************************************************************************)
CycleUpdateMsiLoad(i, cfg) == UpdateMsiLoadWithin(i, cfg, MaxCycleOps)

CycleUpdateMsiRoute(accepted) == UpdateMsiRouteWithin(accepted, MaxCycleOps)

CycleUpdateLegacy(i, cfg, accepted1, accepted2) ==
    /\ ~crashed /\ nops < MaxCycleOps
    /\ LegacyUpdated(i, cfg, accepted1, accepted2)
    /\ UNCHANGED boot

CycleEnable(i, answer) == EnableWithin(i, answer, MaxCycleOps)

CycleDisable(i, answer) == DisableWithin(i, answer, MaxCycleOps)

\* The configurations the devices of SpecCycle pass to update.
CycleMsiCfg == [high_addr |-> 1, low_addr |-> 2, data |-> 3, devid |-> 4]
CycleLegacyCfg == [interrupt_line |-> Some(4), interrupt_pin |-> None]

NextCycle ==
    \/ \E kind \in Kinds, size \in 1..MaxIrqs : AllocateInterrupts(kind, size)
    \/ \E i \in DOMAIN irqs : CycleUpdateMsiLoad(i, CycleMsiCfg)
    \/ \E accepted \in BOOLEAN : CycleUpdateMsiRoute(accepted)
    \/ \E i \in DOMAIN irqs, accepted1 \in BOOLEAN, accepted2 \in BOOLEAN :
           CycleUpdateLegacy(i, CycleLegacyCfg, accepted1, accepted2)
    \/ \E i \in DOMAIN irqs, answer \in BOOLEAN : CycleEnable(i, answer)
    \/ \E i \in DOMAIN irqs, answer \in BOOLEAN : CycleDisable(i, answer)

SpecCycle == Init /\ [][NextCycle]_vars

\* The pin an IRQCHIP entry stands for: the raw pin on the PICs, the pin on the IO-APIC.
LineOf(e) == IF e.u[1] = KVM_IRQCHIP_IOAPIC THEN e.u[2] ELSE RawPicPin(e)

\* C34: after a legacy update with interrupt_pin = None returned Ok, get_config
\* returns a config whose interrupt_pin is None and whose interrupt_line holds the
\* line route_generic returned, a line the hypervisor's table has an IRQCHIP entry
\* for; before any call every interrupt answers InvalidConfiguration.
C34_GetConfigAfterGeneric ==
    /\ nops = 0 => \A i \in DOMAIN irqs : get_config(irqs[i]).kind = "InvalidConfiguration"
    /\ (last.api = "update" /\ last.op = "route_generic" /\ last.ret.kind = "Ok")
       => LET got == get_config(irqs[last.irq])
          IN  /\ got.kind = "Ok"
              /\ got.val.interrupt_pin = None
              /\ IsSome(got.val.interrupt_line)
              /\ Unwrap(got.val.interrupt_line).kind = "Ok"
              /\ last.res.kind = "Ok"
              /\ Unwrap(got.val.interrupt_line).val = last.res.val
              /\ \E e \in kvm : /\ e.type = KVM_IRQ_ROUTING_IRQCHIP
                                 /\ LineOf(e) = last.res.val

\* C39: the notifier fd of a legacy interrupt is registered with the hypervisor
\* only if an earlier update on that interrupt got a route installed. Stated:
\* every legacy interrupt whose fd the hypervisor holds is among the interrupts
\* for which an update had a table with the new entry accepted.
C39_FdOnlyAfterRoute ==
    \A i \in DOMAIN irqs :
        (irqs[i].kind = "legacy" /\ <<i, irqs[i].gsi>> \in irqfds) => i \in routed

(***************************************************************************)
(* Properties of the interrupt objects (checked under SpecIrq).            *)
(***************************************************************************)
\* C9: after update(cfg) on an unregistered MSI interrupt whose route was
\* committed, the MSI entry of the interrupt's gsi carries address_hi =
\* cfg.high_addr, address_lo = cfg.low_addr, data = cfg.data, devid = cfg.devid.
C9_MsiFieldsInSlots ==
    (/\ last.api = "update" /\ last.op = "route_msi"
     /\ last.res.kind = "Ok")
    => LET key == <<0, KVM_IRQ_ROUTING_MSI, irqs[last.irq].gsi>>
       IN  /\ key \in DOMAIN routes
           /\ routes[key].gsi = irqs[last.irq].gsi
           /\ routes[key].type = KVM_IRQ_ROUTING_MSI
           /\ routes[key].u = <<last.cfg.low_addr, last.cfg.high_addr,
                                last.cfg.data, last.cfg.devid>>

\* C10: an update whose routing call failed returns an error; update returns Ok
\* only when the route was installed and committed.
C10_UpdateReportsFailure ==
    (last.api = "update" /\ last.op \in PublicOps)
    => (last.ret.kind = "Ok" <=> last.res.kind = "Ok")

RoutingSucceeded == last.op \in PublicOps /\ last.res.kind = "Ok"
Target == irqs[last.irq]
TargetBefore == last.pre_irqs[last.irq]
InterruptsKept == \A i \in DOMAIN last.pre_irqs : irqs[i] = last.pre_irqs[i]
CallsOfLast == {k \in 1..Len(fdlog) : fdlog[k].n = nops}

\* C11: configured is false for every interrupt before any call, an update whose
\* routing succeeded leaves its interrupt configured, an update whose routing
\* failed leaves an unconfigured interrupt unconfigured, no call clears the flag
\* and no call other than an update changes it.
C11_ConfiguredTracksSuccess ==
    /\ nops = 0 => \A i \in DOMAIN irqs : ~irqs[i].configured
    /\ last.api = "update" =>
           /\ TargetBefore.configured => Target.configured
           /\ RoutingSucceeded => Target.configured
           /\ (~TargetBefore.configured /\ ~RoutingSucceeded) => ~Target.configured
    /\ last.api \in {"update", "enable", "disable"} =>
           \A i \in DOMAIN last.pre_irqs :
               (i # last.irq \/ last.api # "update")
                   => irqs[i].configured = last.pre_irqs[i].configured

\* C12: update called on a registered MSI interrupt returns InvalidConfiguration,
\* issues no commit, and leaves the route map, the hypervisor's table and every
\* interrupt (its registered and configured flags included) as they were: no
\* call that found the interrupt registered goes on to the table's lock, and a
\* call that returned at the check was on a registered interrupt and changed
\* nothing.
C12_RegisteredMsiRejected ==
    /\ \A t \in DOMAIN threads :
           (threads[t].op = "update" /\ threads[t].pc = "lock"
            /\ irqs[threads[t].irq].kind = "msi")
           => ~threads[t].seen
    /\ (last.api = "update" /\ TargetBefore.kind = "msi" /\ last.op = "none")
       => /\ TargetBefore.registered
          /\ last.ret = Err("InvalidConfiguration")
          /\ last.commits = <<>>
          /\ SameEntries(routes, last.pre_routes)
          /\ kvm = last.pre_kvm
          /\ InterruptsKept
          /\ irqfds = last.pre_fds

C12_Witness ==
    /\ last.api = "update" /\ TargetBefore.kind = "msi" /\ TargetBefore.registered
    /\ last.op = "none" /\ last.ret.kind = "InvalidConfiguration"

\* C13: enable on a legacy interrupt that is not configured returns
\* InterruptNotChanged, makes no register_irqfd call to the hypervisor and leaves
\* the interrupt unregistered.
C13_UnconfiguredLegacyEnable ==
    (last.api = "enable" /\ TargetBefore.kind = "legacy" /\ ~TargetBefore.configured)
    => /\ last.ret = Err("InterruptNotChanged")
       /\ CallsOfLast = {}
       /\ ~Target.registered
       /\ irqfds = last.pre_fds

C13_Witness ==
    /\ last.api = "enable" /\ TargetBefore.kind = "legacy" /\ ~TargetBefore.configured
    /\ last.ret.kind = "InterruptNotChanged"

\* The hypervisor calls that succeeded for interrupt i, in order.
OkCalls(i) == SelectSeq(fdlog, LAMBDA e : e.call.ok /\ e.call.fd[1] = i)

\* C14: enable on a registered interrupt and disable on an unregistered one return
\* Ok without a hypervisor call and change nothing; the successful register and
\* unregister calls of each interrupt alternate, starting with a register.
C14_EnableDisableIdempotent ==
    /\ ((last.api = "enable" /\ TargetBefore.registered)
        \/ (last.api = "disable" /\ ~TargetBefore.registered))
       => /\ last.ret = Ok(0)
          /\ CallsOfLast = {}
          /\ InterruptsKept
          /\ irqfds = last.pre_fds
    /\ \A i \in DOMAIN irqs :
           \A k \in 1..Len(OkCalls(i)) :
               OkCalls(i)[k].call.call = IF k % 2 = 1 THEN "register" ELSE "unregister"

C14_Witness ==
    /\ last.api = "enable" /\ TargetBefore.registered
    /\ Len(OkCalls(last.irq)) = 1

\* C15: when a registered interrupt was disabled and then enabled, both calls
\* returning Ok and no update in between, the interrupt is as it was before the
\* disable (gsi, registered, configured, configuration), the route map and the
\* hypervisor's table are the same, and its fd is registered under its gsi.
C15_DisableEnableRestores ==
    snap.stage = "enabled"
    => /\ irqs[snap.i] = snap.irq
       /\ irqs[snap.i].registered
       /\ SameEntries(routes, snap.routes)
       /\ kvm = snap.kvm
       /\ <<snap.i, snap.irq.gsi>> \in irqfds

\* The interrupt of the snapshot was configured by an update whose route the
\* hypervisor accepted before it was enabled, disabled and enabled again.
CycleOf(kind) ==
    /\ snap.stage = "enabled" /\ snap.irq.registered /\ snap.irq.kind = kind
    /\ last.api = "enable" /\ last.irq = snap.i /\ ~TargetBefore.registered
    /\ snap.i \in routed /\ snap.kvm # {} /\ DOMAIN snap.routes # {}

C15_Witness == CycleOf("legacy") /\ snap.irq.configured /\ IsSome(snap.irq.config)

C15_MsiCycle == CycleOf("msi")

(***************************************************************************)
(* enable and disable called from several threads on the same interrupts.  *)
(* A call is its atomic loads of the flags, the hypervisor ioctl and the   *)
(* atomic store of registered; no lock is held, so the threads interleave  *)
(* between these steps.                                                    *)
(***************************************************************************)
FdOps == {"enable", "disable"}
InFlight(t) == threads[t].pc \in {"call", "store"}
NoneInFlight == \A t \in DOMAIN threads : ~InFlight(t)

\* Mutant of StoredFlag: disable stores true as enable does.
StoredFlag_true(op) == TRUE

\* registered.store(true) in register_irqfd, registered.store(false) in
\* unregister_irqfd
StoredFlag(op) == op = "enable"

\* The loads that open the call: configured (legacy enable, line 153) and
\* registered (lines 223, 234). The call returns at once when refused or when
\* the flag says there is nothing to do.
FdBegin(t, i, op) ==
    /\ threads[t].pc = "idle"
    /\ LET irq == irqs[i]
           refused == op = "enable" /\ irq.kind = "legacy" /\ ~irq.configured
           needed == IF op = "enable" THEN ~irq.registered ELSE irq.registered
       IN  threads' = [threads EXCEPT ![t] =
               [pc |-> IF refused \/ ~needed THEN "done" ELSE "call",
                op |-> op, irq |-> i, cfg |-> NoCfg,
                ret |-> IF refused THEN Err("InterruptNotChanged") ELSE Ok(0),
                added |-> {},
                overlapped |-> \E u \in DOMAIN threads :
                                   u # t /\ InFlight(u) /\ threads[u].irq = i]]
    /\ UNCHANGED <<routes, ioapic, xt_pic, kvm, irqs, irqfds, next_gsi, aux, crashed, nops, rejects,
                   last, prev, life, mutex>>

\* vm_fd.register_irqfd / vm_fd.unregister_irqfd (lines 224, 235); an error
\* returns through `?` and map_err as InterruptNotChanged.
FdCall(t, answer) ==
    /\ threads[t].pc = "call"
    /\ LET i == threads[t].irq
           fd == <<i, irqs[i].gsi>>
           h == IF threads[t].op = "enable"
                THEN vm_register_irqfd(irqfds, fd, answer)
                ELSE vm_unregister_irqfd(irqfds, fd, answer)
       IN  /\ irqfds' = h.fds
           /\ fdlog' = fdlog \o Logged(0, h.calls)
           /\ threads' = [threads EXCEPT ![t].pc = IF h.ok THEN "store" ELSE "done",
                                         ![t].ret = IF h.ok THEN Ok(0)
                                                    ELSE Err("InterruptNotChanged")]
    /\ UNCHANGED <<routes, ioapic, xt_pic, kvm, irqs, next_gsi, aux, crashed, nops, rejects,
                   last, prev, snap, mutex>>

\* registered.store (lines 227, 238), then the call returns Ok.
FdStore(t) ==
    /\ threads[t].pc = "store"
    /\ irqs' = [irqs EXCEPT ![threads[t].irq].registered = StoredFlag(threads[t].op)]
    /\ threads' = [threads EXCEPT ![t].pc = "done"]
    /\ UNCHANGED <<routes, ioapic, xt_pic, kvm, irqfds, next_gsi, aux, crashed, nops, rejects,
                   last, prev, life, mutex>>

NextFd ==
    \/ \E kind \in Kinds, size \in 1..MaxIrqs : AllocateInterrupts(kind, size)
    \/ \E t \in 1..MaxThreads, i \in DOMAIN irqs, op \in FdOps : FdBegin(t, i, op)
    \/ \E t \in 1..MaxThreads, answer \in BOOLEAN : FdCall(t, answer)
    \/ \E t \in 1..MaxThreads : FdStore(t)

SpecFd == Init /\ [][NextFd]_vars

(***************************************************************************)
(* Properties of concurrent enable / disable (checked under SpecFd).       *)
(***************************************************************************)
FlagsMatchHypervisor ==
    \A i \in DOMAIN irqs : irqs[i].registered <=> <<i, irqs[i].gsi>> \in irqfds
Raced == \E t \in DOMAIN threads : threads[t].overlapped

\* C16 as stated: once every enable and disable call has returned, whatever the
\* interleaving, each interrupt's registered flag is true exactly when its fd is
\* registered with the hypervisor under its gsi.
C16_ConcurrentConverges == NoneInFlight => FlagsMatchHypervisor

\* C16 amended: the flag equals the hypervisor's registration state once every
\* call has returned, provided no call on an interrupt began while another call
\* on the same interrupt was in flight.
C16_SequentialConverges == (NoneInFlight /\ ~Raced) => FlagsMatchHypervisor

C16_Witness ==
    /\ NoneInFlight /\ ~Raced
    /\ \A t \in DOMAIN threads : threads[t].pc = "done"
    /\ \E i \in DOMAIN irqs : Len(OkCalls(i)) = 3 /\ irqs[i].registered

(***************************************************************************)
(* update called from several threads. The routing table is an             *)
(* Arc<Mutex<KvmIrqRoutingTable>>: a thread takes the lock, routes, and    *)
(* releases the lock when update returns.                                  *)
(***************************************************************************)
\* KvmMsiInterrupt::update, line 92: the registered flag is read before the lock
\* is taken.
UpdBeginMsi(t, i, cfg) ==
    /\ ~crashed /\ threads[t].pc = "idle" /\ irqs[i].kind = "msi"
    /\ threads' = [threads EXCEPT ![t] =
           [pc |-> IF irqs[i].registered THEN "done" ELSE "lock",
            op |-> "update", irq |-> i, cfg |-> cfg,
            ret |-> IF irqs[i].registered THEN Err("InvalidConfiguration") ELSE Ok(0),
            added |-> {}, overlapped |-> FALSE]]
    /\ UNCHANGED <<routes, ioapic, xt_pic, kvm, irqs, irqfds, next_gsi, aux, crashed, nops, rejects,
                   last, prev, life, mutex>>

\* KvmLegacyInterrupt::update, line 175
UpdBeginLegacy(t, i, cfg) ==
    /\ ~crashed /\ threads[t].pc = "idle" /\ irqs[i].kind = "legacy"
    /\ threads' = [threads EXCEPT ![t] =
           [pc |-> "lock", op |-> "update", irq |-> i, cfg |-> cfg, ret |-> Ok(0),
            added |-> {}, overlapped |-> FALSE]]
    /\ UNCHANGED <<routes, ioapic, xt_pic, kvm, irqs, irqfds, next_gsi, aux, crashed, nops, rejects,
                   last, prev, life, mutex>>

\* routing_table.lock() (lines 95, 176): blocks while another thread holds it.
UpdLock(t) ==
    /\ ~crashed /\ threads[t].pc = "lock" /\ mutex = 0
    /\ mutex' = t
    /\ threads' = [threads EXCEPT ![t].pc = "locked"]
    /\ UNCHANGED <<routes, ioapic, xt_pic, kvm, irqs, irqfds, next_gsi, aux, crashed, nops, rejects,
                   last, prev, life>>

\* The body of update under the lock (lines 96-102, 177-189).
UpdRoute(t, accepted1, accepted2) ==
    /\ ~crashed /\ threads[t].pc = "locked" /\ mutex = t
    /\ LET i == threads[t].irq
           r == IF irqs[i].kind = "msi"
                THEN KvmMsiInterrupt_route(Table, irqs[i], threads[t].cfg, accepted1)
                ELSE KvmLegacyInterrupt_update(Table, irqs[i], threads[t].cfg,
                                               accepted1, accepted2)
       IN  /\ Applied(r.o, "update", r.op, irqs[i].gsi, r.pin, NoCfg, i, r.ret)
           /\ irqs' = [irqs EXCEPT ![i] = r.irq]
           /\ threads' = [threads EXCEPT ![t].pc = "routed", ![t].ret = r.ret,
                                         ![t].added = Range(r.o.t.routes) \ Range(routes)]
    /\ UNCHANGED <<irqfds, next_gsi, aux, prev, life, mutex>>

\* update returns: the MutexGuard is dropped.
UpdReturn(t) ==
    /\ ~crashed /\ threads[t].pc = "routed" /\ mutex = t
    /\ mutex' = 0
    /\ threads' = [threads EXCEPT ![t].pc = "done"]
    /\ UNCHANGED <<routes, ioapic, xt_pic, kvm, irqs, irqfds, next_gsi, aux, crashed, nops, rejects,
                   last, prev, life>>

Updaters == 1..MaxUpdaters

NextConc ==
    \/ \E kind \in Kinds, size \in 1..MaxUpdaters : AllocateGroup(kind, size, MaxUpdaters)
    \/ \E t \in Updaters, i \in DOMAIN irqs, cfg \in MsiCfgs : UpdBeginMsi(t, i, cfg)
    \/ \E t \in Updaters, i \in DOMAIN irqs, cfg \in LegacyCfgs : UpdBeginLegacy(t, i, cfg)
    \/ \E t \in Updaters : UpdLock(t)
    \/ \E t \in Updaters, accepted1 \in BOOLEAN, accepted2 \in BOOLEAN :
           UpdRoute(t, accepted1, accepted2)
    \/ \E t \in Updaters : UpdReturn(t)

SpecConc == Init /\ [][NextConc]_vars

(***************************************************************************)
(* Properties of concurrent update (checked under SpecConc).               *)
(***************************************************************************)
AllReturned == \A t \in Updaters : threads[t].pc = "done"
AllReturnedOk == AllReturned /\ \A t \in Updaters : threads[t].ret.kind = "Ok"
HoldsRouteOf(t) == \E e \in kvm : e.gsi = irqs[threads[t].irq].gsi

\* C17: once the concurrent updates have all returned Ok, the hypervisor holds the
\* table built from the final route map, and that table has a route for the
\* interrupt of every one of them.
C17_SerializedCommits ==
    AllReturnedOk => (kvm = Range(routes) /\ \A t \in Updaters : HoldsRouteOf(t))

\* C17, the part the lock gives: once concurrent updates of different interrupts
\* have returned, the hypervisor holds the table built from the final route map,
\* with every entry that each update left in the map.
C17_NoLostEntry ==
    (AllReturned /\ \A t, u \in Updaters : t # u => threads[t].irq # threads[u].irq)
    => (kvm = Range(routes) /\ \A t \in Updaters : threads[t].added \subseteq kvm)

\* The lock is held by exactly the thread that is routing.
C17_MutualExclusion ==
    \A t \in Updaters : threads[t].pc \in {"locked", "routed"} <=> mutex = t

(***************************************************************************)
(* update racing with enable and disable on one MSI interrupt: the steps   *)
(* of SpecConc and of SpecFd taken by different threads in any order.      *)
(***************************************************************************)
NextRace ==
    \/ \E size \in 1..MaxIrqs : AllocateInterrupts("msi", size)
    \/ \E t \in 1..MaxThreads, i \in DOMAIN irqs, cfg \in MsiCfgs : UpdBeginMsi(t, i, cfg)
    \/ \E t \in 1..MaxThreads : UpdLock(t)
    \/ \E t \in 1..MaxThreads, accepted \in BOOLEAN : UpdRoute(t, accepted, accepted)
    \/ \E t \in 1..MaxThreads : UpdReturn(t)
    \/ \E t \in 1..MaxThreads, i \in DOMAIN irqs, op \in FdOps : FdBegin(t, i, op)
    \/ \E t \in 1..MaxThreads, answer \in BOOLEAN : FdCall(t, answer)
    \/ \E t \in 1..MaxThreads : FdStore(t)

SpecRace == Init /\ [][NextRace]_vars

\* C40: route_msi never installs or changes the entry of an MSI interrupt whose
\* fd is registered with the hypervisor at that moment, whatever the interleaving
\* of update with enable.
C40_NoRouteWhileRegistered ==
    (last.api = "update" /\ last.op = "route_msi" /\ PlacedKeys # {})
    => <<last.irq, last.gsi>> \notin last.pre_fds

(***************************************************************************)
(* The routing table close to MAX_ROUTES entries: it starts as it is after *)
(* route_msi was called and accepted for each of the GSIs 0 .. MAX_ROUTES  *)
(* - 2 with FillCfg, one entry short of MAX_ROUTES, and callers go on with *)
(* route_msi for a GSI already routed and for GSIs not routed yet.         *)
(***************************************************************************)
MaxFillOps == 3      \* route_msi calls in one run of SpecFill
FillCfg == [high_addr |-> 1, low_addr |-> 2, data |-> 3, devid |-> 4]
FillGsis == {0, MAX_ROUTES - 1, MAX_ROUTES}

\* The route map after route_msi(g, ..) succeeded for g = 0 .. n - 1.
FilledRoutes(n) ==
    [k \in {<<0, KVM_IRQ_ROUTING_MSI, g>> : g \in 0..(n - 1)} |->
        MsiEntry(k[3], FillCfg.low_addr, FillCfg.high_addr, FillCfg.data, FillCfg.devid)]

InitFill ==
    /\ routes = FilledRoutes(MAX_ROUTES - 1)
    /\ kvm = Range(FilledRoutes(MAX_ROUTES - 1))
    /\ ioapic = IoApic_new
    /\ xt_pic = XtPic_new
    /\ irqs = <<>>
    /\ irqfds = {}
    /\ next_gsi = GsiAllocator_new
    /\ crashed = FALSE
    /\ nops = 0
    /\ rejects = 0
    /\ last = NoCall
    /\ prev = Summary(NoCall)
    /\ fdlog = <<>>
    /\ snap = NoSnap
    /\ threads = [t \in 1..MaxThreads |-> Idle]
    /\ mutex = 0
    /\ pinlog = NoPins
    /\ allocator = DefaultGsiAllocator_new(U32(IRQ_MAX))   \* as DefaultSystemAllocator builds it
    /\ solo = allocator
    /\ gsilog = <<>>
    /\ routed = {}
    /\ groups = <<>>
    /\ gsi_mutex = 0
    /\ boot = 0

FillMsi(gsi, cfg, accepted) ==
    /\ ~crashed /\ nops < MaxFillOps
    /\ LET o == route_msi(Table, gsi, cfg.high_addr, cfg.low_addr, cfg.data, cfg.devid,
                          accepted)
       IN  /\ routes' = o.t.routes
           /\ kvm' = o.t.kvm
           /\ nops' = nops + 1
           /\ rejects' = rejects + Cardinality({i \in 1..Len(o.commits) : ~o.commits[i]})
    /\ UNCHANGED <<ioapic, xt_pic, irqs, irqfds, next_gsi, aux, crashed, last, prev, life, conc>>

NextFill ==
    \E gsi \in FillGsis, cfg \in MsiCfgs, accepted \in BOOLEAN : FillMsi(gsi, cfg, accepted)

SpecFill == InitFill /\ [][NextFill]_vars

\* C19: the route map never holds more than MAX_ROUTES entries.
C19_AtMostMaxRoutes == Cardinality(DOMAIN routes) <= MAX_ROUTES

(***************************************************************************)
(* The pin pools on their own: allocate_pin called on the IO-APIC and on   *)
(* the XT-PIC pool with any arguments, valid pins and invalid ones.        *)
(***************************************************************************)
MaxPoolOps == 4      \* allocate_pin calls in one run of SpecPool
PoolArgs == {None} \cup {Some(p) : p \in {0, 1, CHAIN_PIN, 3, IRQ_MAX + 1}}

\* One entry of pinlog: the arguments and the result of an allocate_pin call.
PinCall(shared, requested_pin, res) == [shared |-> shared, pin |-> requested_pin, res |-> res]

\* One allocate_pin call on the IO-APIC pool and its record.
CallIoApic(shared, requested_pin) ==
    /\ LET a == IoApic_allocate_pin(ioapic, shared, requested_pin)
       IN  /\ ioapic' = a.io
           /\ crashed' = a.panic
           /\ last' = [api |-> "pool", op |-> "IoApic::allocate_pin", shared |-> shared,
                       pin |-> requested_pin, res |-> a.pin, pre |-> ioapic]
           /\ pinlog' = [pinlog EXCEPT
                            !.ioapic = Append(@, PinCall(shared, requested_pin, a.pin))]
    /\ nops' = nops + 1
    /\ UNCHANGED <<routes, xt_pic, kvm, irqs, irqfds, next_gsi, rejects, prev, life, conc,
                   allocator, solo, gsilog, routed, grp>>

\* One allocate_pin call on the XT-PIC pool and its record.
CallXtPic(requested_pin) ==
    /\ LET a == XtPic_allocate_pin(xt_pic, requested_pin)
       IN  /\ xt_pic' = a.pic
           /\ last' = [api |-> "pool", op |-> "XtPic::allocate_pin", shared |-> FALSE,
                       pin |-> requested_pin, res |-> a.pin, pre |-> xt_pic]
           /\ pinlog' = [pinlog EXCEPT
                            !.xt_pic = Append(@, PinCall(FALSE, requested_pin, a.pin))]
    /\ nops' = nops + 1
    /\ UNCHANGED <<routes, ioapic, kvm, irqs, irqfds, next_gsi, crashed, rejects, prev,
                   life, conc, allocator, solo, gsilog, routed, grp>>

PoolIoApic(shared, requested_pin) ==
    /\ ~crashed /\ nops < MaxPoolOps
    /\ CallIoApic(shared, requested_pin)

PoolXtPic(requested_pin) ==
    /\ ~crashed /\ nops < MaxPoolOps
    /\ CallXtPic(requested_pin)

NextPool ==
    \/ \E shared \in BOOLEAN, requested_pin \in PoolArgs : PoolIoApic(shared, requested_pin)
    \/ \E requested_pin \in PoolArgs : PoolXtPic(requested_pin)

SpecPool == Init /\ [][NextPool]_vars

(***************************************************************************)
(* The IO-APIC pool run dry: allocate_pin(shared, None) called again and   *)
(* again, exclusive calls and shareable ones in runs.                      *)
(***************************************************************************)
MaxApicOps == 46     \* allocate_pin calls in one run of SpecApic
MaxSwitches == 1     \* changes between exclusive and shareable calls in one run

\* The number of calls whose `shared` differs from the call before.
Switches(log) == Cardinality({n \in 2..Len(log) : log[n].shared # log[n - 1].shared})

ApicAllocate(shared) ==
    /\ ~crashed /\ Len(pinlog.ioapic) < MaxApicOps
    /\ Switches(Append(pinlog.ioapic, PinCall(shared, None, None))) <= MaxSwitches
    /\ CallIoApic(shared, None)

NextApic == \E shared \in BOOLEAN : ApicAllocate(shared)

SpecApic == Init /\ [][NextApic]_vars

(***************************************************************************)
(* The XT-PIC pool run dry: allocate_pin(None) called again and again,     *)
(* with a few requests for a given pin in between.                         *)
(***************************************************************************)
MaxXtOps == 16       \* allocate_pin calls in one run of SpecXt
MaxRequests == 1     \* calls asking for a given pin in one run of SpecXt
XtArgs == {Some(p) : p \in {0, 1, CHAIN_PIN, PIC_MAX, PIC_MAX + 1}}

\* The number of calls that asked for a given pin.
Requests(log) == Cardinality({n \in 1..Len(log) : IsSome(log[n].pin)})

XtAllocate ==
    /\ Len(pinlog.xt_pic) < MaxXtOps
    /\ CallXtPic(None)

XtRequest(requested_pin) ==
    /\ Len(pinlog.xt_pic) < MaxXtOps
    /\ Requests(pinlog.xt_pic) < MaxRequests
    /\ CallXtPic(requested_pin)

NextXt ==
    \/ XtAllocate
    \/ \E requested_pin \in XtArgs : XtRequest(requested_pin)

SpecXt == Init /\ [][NextXt]_vars

(***************************************************************************)
(* Properties of the pin pools (checked under SpecPool).                   *)
(***************************************************************************)
\* C20: IoApic::allocate_pin(false, Some(p)) with p not in the available set
\* returns None and leaves the pool as it was, and an exclusive request for a pin
\* never returns another pin.
C20_ExclusiveRequestRefused ==
    (/\ last.api = "pool" /\ last.op = "IoApic::allocate_pin"
     /\ ~last.shared /\ IsSome(last.pin))
    => /\ Unwrap(last.pin) \notin last.pre.available_pins
              => (last.res = None /\ ioapic = last.pre)
       /\ IsSome(last.res) => last.res = last.pin

(***************************************************************************)
(* The GSI allocator on its own: allocate_irq and allocate_gsi called in   *)
(* any order on an allocator built with max_irq = IRQ_MAX or a larger one, *)
(* fresh or with its GSI cursor near the top of the u32 range.             *)
(***************************************************************************)
MaxGsiOps == 5       \* allocator calls in one run of SpecGsi
MaxGroups == 2        \* interrupt groups handed out by the manager
MaxGroupSize == 2     \* the largest size passed to allocate_interrupts
MaxGroupIrqs == 3     \* interrupts allocated over all groups
MaxGroupOps == 2      \* update, enable and disable calls in a run of the group machine
MaxAllocators == 2    \* threads calling allocate_interrupts
MaxIrqArgs == {U32(IRQ_MAX), U32(IRQ_MAX + 3)}
\* The GSI cursor after allocate_gsi has returned every GSI below u32::MAX - 2.
NearTop == <<HALF - 1, HALF - 3>>
GsiStarts ==
    {DefaultGsiAllocator_new(m) : m \in MaxIrqArgs}
    \cup {[DefaultGsiAllocator_new(m) EXCEPT !.next_gsi = NearTop] : m \in MaxIrqArgs}

InitGsi ==
    /\ InitTable
    /\ allocator \in GsiStarts
    /\ solo = allocator

\* One entry of gsilog: the call, its result, the GSI cursor before and after it,
\* and what the same allocate_irq call returns on `solo`.
GsiCall(op, r, alone, checks) ==
    [op |-> op, res |-> r.res, cursor |-> allocator.next_gsi, next |-> r.a.next_gsi,
     alone |-> alone, checks |-> checks]

AllocateGsi ==
    /\ ~crashed /\ Len(gsilog) < MaxGsiOps
    /\ LET r == DefaultGsiAllocator_allocate_gsi(allocator)
       IN  /\ allocator' = r.a
           /\ crashed' = r.panic
           /\ gsilog' = Append(gsilog, GsiCall("allocate_gsi", r, r.res, FALSE))
    /\ nops' = nops + 1
    /\ UNCHANGED <<routes, ioapic, xt_pic, kvm, irqs, irqfds, next_gsi, rejects, last, prev,
                   life, conc, pinlog, solo, routed, grp>>

\* overflow_checks is a property of the build: the same in every call of a run.
AllocateIrq(overflow_checks) ==
    /\ ~crashed /\ Len(gsilog) < MaxGsiOps
    /\ \A n \in 1..Len(gsilog) :
          gsilog[n].op = "allocate_irq" => gsilog[n].checks = overflow_checks
    /\ LET r == DefaultGsiAllocator_allocate_irq(allocator, overflow_checks)
           alone == DefaultGsiAllocator_allocate_irq(solo, overflow_checks)
       IN  /\ allocator' = r.a
           /\ solo' = alone.a
           /\ crashed' = r.panic
           /\ gsilog' = Append(gsilog, GsiCall("allocate_irq", r, alone.res, overflow_checks))
    /\ nops' = nops + 1
    /\ UNCHANGED <<routes, ioapic, xt_pic, kvm, irqs, irqfds, next_gsi, rejects, last, prev,
                   life, conc, pinlog, routed, grp>>

NextGsi ==
    \/ AllocateGsi
    \/ \E overflow_checks \in BOOLEAN : AllocateIrq(overflow_checks)

SpecGsi == InitGsi /\ [][NextGsi]_vars

(***************************************************************************)
(* Properties of the GSI allocator (checked under SpecGsi).                *)
(***************************************************************************)
IsIrqCall(n) == gsilog[n].op = "allocate_irq"
IsGsiCall(n) == gsilog[n].op = "allocate_gsi"
Returned(n) == gsilog[n].res.kind = "Ok"
Overflowed(n) == gsilog[n].res.kind = "Overflow"
SameResult(r1, r2) == r1.kind = r2.kind /\ (r1.kind = "Ok" => r1.val = r2.val)
\* The number of allocate_irq calls among the first n calls.
IrqCalls(n) == Cardinality({k \in 1..n : IsIrqCall(k)})
\* next is cursor + 1 within the u32 range.
IsSuccessor(cursor, next) ==
    \/ next[1] = cursor[1] /\ next[2] = cursor[2] + 1 /\ next[2] < HALF
    \/ next[1] = cursor[1] + 1 /\ next[1] < HALF /\ next[2] = 0 /\ cursor[2] = HALF - 1

\* C27: the n-th allocate_irq call on a new allocator returns IRQ_BASE + n - 1
\* while that is at most max_irq, and Overflow after that.
C27_IrqsInOrder ==
    \A n \in 1..Len(gsilog) :
        IsIrqCall(n)
        => LET irq == U32(IRQ_BASE + IrqCalls(n) - 1)
           IN  IF U32Gt(irq, allocator.max_irq)
               THEN Overflowed(n)
               ELSE Returned(n) /\ gsilog[n].res.val = irq

\* C28: allocate_irq returns what it returns when no allocate_gsi call is made
\* in between, and leaves the GSI cursor alone.
C28_IndependentCursors ==
    \A n \in 1..Len(gsilog) :
        IsIrqCall(n)
        => /\ SameResult(gsilog[n].res, gsilog[n].alone)
           /\ gsilog[n].next = gsilog[n].cursor

\* C29: no number is returned both by allocate_irq and by allocate_gsi.
C29_RangesDisjoint ==
    \A m, n \in 1..Len(gsilog) :
        (IsIrqCall(m) /\ Returned(m) /\ IsGsiCall(n) /\ Returned(n))
        => gsilog[m].res.val # gsilog[n].res.val

\* C30: allocate_gsi returns the cursor and advances it by one, never wrapping and
\* never returning a value twice; at u32::MAX it returns Overflow with the cursor
\* unchanged, and so does every later call.
C30_GsiChecked ==
    \A n \in 1..Len(gsilog) :
        IsGsiCall(n)
        => /\ Returned(n) \/ Overflowed(n)
           /\ Returned(n) <=> gsilog[n].cursor # U32_MAX
           /\ Returned(n) => /\ gsilog[n].res.val = gsilog[n].cursor
                              /\ IsSuccessor(gsilog[n].cursor, gsilog[n].next)
           /\ Overflowed(n) => gsilog[n].next = gsilog[n].cursor
           /\ \A m \in 1..(n - 1) :
                 IsGsiCall(m)
                 => /\ Overflowed(m) => Overflowed(n)
                    /\ (Returned(m) /\ Returned(n)) => gsilog[m].res.val # gsilog[n].res.val

C30_Witness ==
    \E k, m, n \in 1..Len(gsilog) :
        /\ k < m /\ m < n
        /\ IsGsiCall(k) /\ Returned(k) /\ gsilog[k].next = U32_MAX
        /\ IsGsiCall(m) /\ Overflowed(m)
        /\ IsGsiCall(n) /\ Overflowed(n)
        /\ \E i \in 1..Len(gsilog) : IsIrqCall(i)

(***************************************************************************)
(* Properties of long runs on one pool (checked under SpecApic, SpecXt and *)
(* SpecPool).                                                              *)
(***************************************************************************)
ApicPins == (1..IRQ_MAX) \ {CHAIN_PIN}      \* the valid IO-APIC pins
XtPins == (1..PIC_MAX) \ {CHAIN_PIN}        \* the valid XT-PIC pins
Nth(S, n) == CHOOSE x \in S : Cardinality({y \in S : y < x}) = n - 1
ApicLog == pinlog.ioapic
XtLog == pinlog.xt_pic
LastIsApic == last.api = "pool" /\ last.op = "IoApic::allocate_pin"
LastIsXt == last.api = "pool" /\ last.op = "XtPic::allocate_pin"
\* The pins the first n calls of a log returned.
HandedOut(log, n) == {Unwrap(log[m].res) : m \in {k \in 1..n : IsSome(log[k].res)}}

\* C21: when the available set and the shared list are both empty (every pin was
\* allocated exclusively), allocate_pin(true, None) returns None and leaves the
\* pool as it was.
C21_ExhaustedSharedReturnsNone ==
    (/\ LastIsApic /\ last.shared /\ last.pin = None
     /\ last.pre.available_pins = {} /\ last.pre.shared_pins = <<>>)
    => (~crashed /\ last.res = None /\ ioapic = last.pre)

\* C22: on a fresh pool used only through allocate_pin(false, None), call n
\* returns the n-th pin of {1..IRQ_MAX} \ {2} in ascending order, and every call
\* after the last pin returns None.
C22_ExclusiveAscending ==
    (\A n \in 1..Len(ApicLog) : ~ApicLog[n].shared)
    => \A n \in 1..Len(ApicLog) :
          ApicLog[n].res = IF n <= Cardinality(ApicPins) THEN Some(Nth(ApicPins, n)) ELSE None

C22_Witness ==
    /\ \A n \in 1..Len(ApicLog) : ~ApicLog[n].shared
    /\ Len(ApicLog) > Cardinality(ApicPins) + 1
    /\ ApicLog[Cardinality(ApicPins)].res = Some(IRQ_MAX)
    /\ ApicLog[Len(ApicLog)].res = None

\* C23: on a fresh pool used only through allocate_pin(true, None), the first k
\* calls (k the number of valid pins) return the valid pins in ascending order
\* and call k + i returns what call i returned.
C23_SharedFifo ==
    (\A n \in 1..Len(ApicLog) : ApicLog[n].shared)
    => \A n \in 1..Len(ApicLog) :
          /\ n <= Cardinality(ApicPins) => ApicLog[n].res = Some(Nth(ApicPins, n))
          /\ n > Cardinality(ApicPins) => ApicLog[n].res = ApicLog[n - Cardinality(ApicPins)].res
          /\ IsSome(ApicLog[n].res) /\ Unwrap(ApicLog[n].res) \in ApicPins

C23_Witness ==
    /\ \A n \in 1..Len(ApicLog) : ApicLog[n].shared
    /\ Len(ApicLog) >= 2 * Cardinality(ApicPins) + 1
    /\ ApicLog[Cardinality(ApicPins) + 1].res = Some(1)
    /\ ApicLog[2 * Cardinality(ApicPins) + 1].res = Some(1)

\* C24: in every state of the IO-APIC pool no pin is both available and shared,
\* the shared list holds no pin twice, and both hold only pins of
\* {1..IRQ_MAX} \ {2}.
C24_PoolWellFormed ==
    /\ ioapic.available_pins \cap SeqRange(ioapic.shared_pins) = {}
    /\ Cardinality(SeqRange(ioapic.shared_pins)) = Len(ioapic.shared_pins)
    /\ ioapic.available_pins \cup SeqRange(ioapic.shared_pins) \subseteq ApicPins

C24_Witness ==
    /\ LastIsApic /\ last.shared /\ IsSome(last.pin) /\ last.res = last.pin
    /\ Unwrap(last.pin) \in SeqRange(last.pre.shared_pins)
    /\ Len(ioapic.shared_pins) >= 2

\* C25: a pin returned by an exclusive allocation is returned by no later
\* allocation on the pool, whatever its arguments, and is never in the shared
\* list.
C25_ExclusivePinStaysTaken ==
    \A m \in 1..Len(ApicLog) :
        (~ApicLog[m].shared /\ IsSome(ApicLog[m].res))
        => /\ \A n \in (m + 1)..Len(ApicLog) : ApicLog[n].res # ApicLog[m].res
           /\ Unwrap(ApicLog[m].res) \notin SeqRange(ioapic.shared_pins)

C25_Witness ==
    \E m \in 1..Len(ApicLog) :
        /\ ~ApicLog[m].shared /\ IsSome(ApicLog[m].res)
        /\ \E n \in (m + 1)..Len(ApicLog) :
               /\ ApicLog[n].shared /\ ApicLog[n].pin = ApicLog[m].res
        /\ \E n \in (m + 1)..Len(ApicLog) :
               /\ ~ApicLog[n].shared /\ IsSome(ApicLog[n].res)

\* C26: XtPic::allocate_pin(None) returns the smallest pin of {1..15} \ {2} not
\* handed out yet, and None once all are taken; allocate_pin(Some(p)) returns
\* Some(p) exactly when p is such a pin, and otherwise None with the pool as it was.
C26_XtPicAllocation ==
    /\ \A n \in 1..Len(XtLog) :
          LET free == XtPins \ HandedOut(XtLog, n - 1)
              call == XtLog[n]
          IN  IF call.pin = None
              THEN call.res = IF free = {} THEN None ELSE Some(Nth(free, 1))
              ELSE /\ (call.res = call.pin) <=> (Unwrap(call.pin) \in free)
                   /\ call.res # call.pin => call.res = None
    /\ \A m, n \in 1..Len(XtLog) :
          (/\ m < n /\ IsSome(XtLog[m].res) /\ IsSome(XtLog[n].res)
           /\ \A k \in 1..n : XtLog[k].pin = None)
          => Unwrap(XtLog[m].res) < Unwrap(XtLog[n].res)
    /\ (LastIsXt /\ last.res = None) => xt_pic = last.pre

C26_Witness ==
    /\ LastIsXt /\ last.pin = None /\ last.res = None
    /\ HandedOut(XtLog, Len(XtLog)) = XtPins
    /\ \E n \in 1..Len(XtLog) : XtLog[n].pin = Some(PIC_MAX) /\ XtLog[n].res = Some(PIC_MAX)


(***************************************************************************)
(* interrupts/mod.rs: the interrupt groups of one KvmInterruptManager.     *)
(* Every group shares the manager's GSI allocator behind one Mutex;        *)
(* allocate_interrupts holds that Mutex from before its first allocation   *)
(* until it returns, and threads owning different groups call it at the    *)
(* same time.                                                              *)
(***************************************************************************)
\* KvmMsiInterruptGroup::new / KvmLegacyInterruptGroup::new: no interrupts yet
NewGroup(kind) == [kind |-> kind, interrupts |-> <<>>]

\* Mutant of Group_enable: the interrupts after a failing one are visited too.
RECURSIVE Group_enable_through(_, _, _, _, _)
Group_enable_through(all, members, fds, answers, k) ==
    IF k > Len(members)
    THEN [irqs |-> all, fds |-> fds, ret |-> [kind |-> "Ok", val |-> 0], calls |-> <<>>]
    ELSE LET i == members[k]
             r == Interrupt_enable(all[i], i, fds, answers[k])
             rest == Group_enable_through([all EXCEPT ![i] = r.irq], members, r.fds, answers, k + 1)
         IN  [rest EXCEPT !.calls = r.calls \o rest.calls,
                          !.ret = IF r.ret.kind = "Ok" THEN rest.ret ELSE r.ret]

\* Kvm{Msi,Legacy}InterruptGroup::enable from the k-th interrupt on:
\* for int in &self.interrupts { int.enable()?; } Ok(())
RECURSIVE Group_enable(_, _, _, _, _)
Group_enable(all, members, fds, answers, k) ==
    IF k > Len(members)
    THEN [irqs |-> all, fds |-> fds, ret |-> Ok(0), calls |-> <<>>]
    ELSE LET i == members[k]
             r == Interrupt_enable(all[i], i, fds, answers[k])
         IN  IF r.ret.kind # "Ok"
             THEN [irqs |-> [all EXCEPT ![i] = r.irq], fds |-> r.fds, ret |-> r.ret,
                   calls |-> r.calls]
             ELSE LET rest == Group_enable([all EXCEPT ![i] = r.irq], members, r.fds,
                                           answers, k + 1)
                  IN  [rest EXCEPT !.calls = r.calls \o rest.calls]

\* Kvm{Msi,Legacy}InterruptGroup::disable from the k-th interrupt on
RECURSIVE Group_disable(_, _, _, _, _)
Group_disable(all, members, fds, answers, k) ==
    IF k > Len(members)
    THEN [irqs |-> all, fds |-> fds, ret |-> Ok(0), calls |-> <<>>]
    ELSE LET i == members[k]
             r == Interrupt_disable(all[i], i, fds, answers[k])
         IN  IF r.ret.kind # "Ok"
             THEN [irqs |-> [all EXCEPT ![i] = r.irq], fds |-> r.fds, ret |-> r.ret,
                   calls |-> r.calls]
             ELSE LET rest == Group_disable([all EXCEPT ![i] = r.irq], members, r.fds,
                                            answers, k + 1)
                  IN  [rest EXCEPT !.calls = r.calls \o rest.calls]

\* The configuration the devices of the group machine pass to a legacy update.
GenericCfg == [interrupt_line |-> None, interrupt_pin |-> None]

\* A thread inside allocate_interrupts on group threads[t].irq.
Allocating(t) == threads[t].pc \in {"lock", "push"}
RECURSIVE PendingFrom(_)
PendingFrom(t) ==
    IF t > MaxThreads THEN 0
    ELSE (IF Allocating(t) THEN threads[t].left ELSE 0) + PendingFrom(t + 1)
Borrowed(g) == \E t \in DOMAIN threads : Allocating(t) /\ threads[t].irq = g

\* KvmInterruptManager::get_new_msi_group / get_new_legacy_group
GroupHandedOut(kind) ==
    /\ groups' = Append(groups, NewGroup(kind))
    /\ UNCHANGED <<routes, ioapic, xt_pic, kvm, irqs, irqfds, next_gsi, crashed, nops, rejects,
                   last, prev, life, conc, alloc_vars, routed, gsi_mutex>>

GetNewGroup(kind) ==
    /\ ~crashed /\ Len(groups) < MaxGroups
    /\ GroupHandedOut(kind)
    /\ UNCHANGED boot

\* allocate_interrupts(size) entered by thread t on group g, which it owns
\* (&mut self): no other call on g is in flight.
AllocCall(t, g, size) ==
    /\ ~crashed /\ threads[t].pc = "idle" /\ ~Borrowed(g)
    /\ Len(irqs) + PendingFrom(1) + size <= MaxGroupIrqs
    /\ threads' = [threads EXCEPT ![t] =
                      [pc |-> "lock", op |-> "allocate_interrupts", irq |-> g, cfg |-> NoCfg,
                       ret |-> Ok(0), added |-> {}, overlapped |-> FALSE, left |-> size]]
    /\ UNCHANGED <<routes, ioapic, xt_pic, kvm, irqs, irqfds, next_gsi, crashed, nops, rejects,
                   last, prev, life, mutex, aux>>

\* let mut allocator = self.allocator.lock().unwrap()
AllocLock(t) ==
    /\ ~crashed /\ threads[t].pc = "lock" /\ gsi_mutex = 0
    /\ gsi_mutex' = t
    /\ threads' = [threads EXCEPT ![t].pc = "push"]
    /\ UNCHANGED <<routes, ioapic, xt_pic, kvm, irqs, irqfds, next_gsi, crashed, nops, rejects,
                   last, prev, life, mutex, alloc_vars, routed, groups, boot>>

\* One turn of the loop: allocate_gsi().unwrap(), Kvm*Interrupt::new(...).unwrap(),
\* push. A refused GSI or a failed construction panics with the allocator's lock
\* held.
AllocStep(t, eventfd_ok) ==
    /\ ~crashed /\ threads[t].pc = "push" /\ threads[t].left > 0
    /\ LET g == threads[t].irq
           one == AllocateOne(next_gsi, groups[g].kind, eventfd_ok)
       IN  /\ next_gsi' = one.next_gsi
           /\ crashed' = (one.ret.kind = "Panic")
           /\ last' = [NoCall EXCEPT !.api = "allocate_interrupts", !.irq = g,
                                     !.res = [kind |-> one.res.kind, val |-> 0],
                                     !.ret = IF one.ret.kind = "Panic" THEN Err("Panic") ELSE Ok(0),
                                     !.pre_irqs = irqs, !.pre_fds = irqfds]
           /\ IF one.ret.kind = "Ok"
              THEN /\ irqs' = Append(irqs, one.ret.val)
                   /\ groups' = [groups EXCEPT ![g].interrupts = Append(@, Len(irqs) + 1)]
                   /\ threads' = [threads EXCEPT ![t].left = @ - 1]
              ELSE UNCHANGED <<irqs, groups, threads>>
    /\ UNCHANGED <<routes, ioapic, xt_pic, kvm, irqfds, nops, rejects, prev, life, mutex,
                   alloc_vars, routed, gsi_mutex, boot>>

\* Ok(()): the guard is dropped on return
AllocReturn(t) ==
    /\ ~crashed /\ threads[t].pc = "push" /\ threads[t].left = 0
    /\ gsi_mutex' = 0
    /\ threads' = [threads EXCEPT ![t] = Idle]
    /\ UNCHANGED <<routes, ioapic, xt_pic, kvm, irqs, irqfds, next_gsi, crashed, nops, rejects,
                   last, prev, life, mutex, alloc_vars, routed, groups, boot>>

\* The effect of enable / disable on group g with the hypervisor's answers.
GroupCall(api, g, r) ==
    /\ Applied(Untouched(Table), api, "none", 0, None, NoCfg, g, r.ret)
    /\ irqs' = r.irqs
    /\ irqfds' = r.fds
    /\ fdlog' = fdlog \o Logged(nops + 1, r.calls)
    /\ snap' = NoSnap
    /\ UNCHANGED <<next_gsi, prev, conc, alloc_vars, routed, groups, gsi_mutex>>

GroupEnable(g, answers) ==
    /\ ~crashed /\ nops < MaxGroupOps /\ ~Borrowed(g)
    /\ GroupCall("group_enable", g, Group_enable(irqs, groups[g].interrupts, irqfds, answers, 1))
    /\ UNCHANGED boot

GroupDisable(g, answers) ==
    /\ ~crashed /\ nops < MaxGroupOps /\ ~Borrowed(g)
    /\ GroupCall("group_disable", g,
                 Group_disable(irqs, groups[g].interrupts, irqfds, answers, 1))
    /\ UNCHANGED boot

Answers(g) == [1..Len(groups[g].interrupts) -> BOOLEAN]

NextGroup ==
    \/ \E kind \in Kinds : GetNewGroup(kind)
    \/ \E t \in 1..MaxAllocators, g \in DOMAIN groups, size \in 1..MaxGroupSize :
           AllocCall(t, g, size)
    \/ \E t \in 1..MaxAllocators : AllocLock(t)
    \/ \E t \in 1..MaxAllocators, eventfd_ok \in BOOLEAN : AllocStep(t, eventfd_ok)
    \/ \E t \in 1..MaxAllocators : AllocReturn(t)

\* The manager's allocator is fresh, or has handed out its last GSI.
GroupStarts == {GsiAllocator_new, U32_MAX}
InitGroup ==
    /\ InitBare
    /\ next_gsi \in GroupStarts
    /\ allocator = DefaultGsiAllocator_new(U32(IRQ_MAX))
    /\ solo = allocator

SpecGroup == InitGroup /\ [][NextGroup]_vars

\* C31: the interrupts of all groups of one manager have pairwise distinct GSIs,
\* and every interrupt belongs to exactly one group position, also while several
\* threads are inside allocate_interrupts.
C31_DistinctGsis ==
    /\ \A i \in DOMAIN irqs, j \in DOMAIN irqs : i # j => irqs[i].gsi # irqs[j].gsi
    /\ \A g \in DOMAIN groups, h \in DOMAIN groups :
           \A k \in DOMAIN groups[g].interrupts, l \in DOMAIN groups[h].interrupts :
               (<<g, k>> # <<h, l>>)
                   => irqs[groups[g].interrupts[k]].gsi # irqs[groups[h].interrupts[l]].gsi

\* Two groups hold interrupts while one thread is pushing into its group and
\* another waits for the allocator.
C31_Witness ==
    \E t \in DOMAIN threads, u \in DOMAIN threads :
        /\ threads[t].pc = "push" /\ threads[u].pc = "lock"
        /\ gsi_mutex = t
        /\ threads[t].irq # threads[u].irq
        /\ groups[threads[t].irq].interrupts # <<>>
        /\ groups[threads[u].irq].interrupts # <<>>

\* C32: when a GSI allocation or the construction of an interrupt fails in the middle of
\* allocate_interrupts, the call returns an error, the program goes on, and the
\* interrupts pushed earlier are still in the group.
C32_FailureReturnsError ==
    (last.api = "allocate_interrupts" /\ last.res.kind # "Ok")
    => /\ ~crashed
       /\ last.ret.kind \notin {"Ok", "Panic"}
       /\ \A i \in DOMAIN last.pre_irqs : irqs[i] = last.pre_irqs[i]

(***************************************************************************)
(* The groups in use by one thread: allocate_interrupts runs to its end,   *)
(* the devices configure legacy interrupts and enable and disable whole    *)
(* groups.                                                                 *)
(***************************************************************************)
\* The effect of allocate_interrupts(size) on group g, run to its end or to its panic
GroupFilled(g, size) ==
    /\ \E fail \in 0..size :
           LET r == allocate_interrupts(irqs, next_gsi, groups[g].kind, size, fail)
               pushed == Len(r.interrupts) - Len(irqs)
           IN  /\ irqs' = r.interrupts
               /\ next_gsi' = r.next_gsi
               /\ groups' = [groups EXCEPT ![g].interrupts =
                                @ \o [k \in 1..pushed |-> Len(irqs) + k]]
               /\ crashed' = (r.ret.kind = "Panic")
               /\ last' = [NoCall EXCEPT !.api = "allocate_interrupts", !.irq = g,
                                         !.res = r.res, !.ret = r.ret,
                                         !.pre_irqs = irqs, !.pre_fds = irqfds]
    /\ UNCHANGED <<routes, ioapic, xt_pic, kvm, irqfds, nops, rejects, prev,
                   life, conc, alloc_vars, routed, gsi_mutex>>

GroupAllocate(g, size) ==
    /\ ~crashed /\ Len(irqs) + size <= MaxGroupIrqs
    /\ GroupFilled(g, size)
    /\ UNCHANGED boot

NextMembers ==
    \/ \E kind \in Kinds : GetNewGroup(kind)
    \/ \E size \in 1..MaxGroupSize :     \* a device fills the group it has just obtained
           groups # <<>> /\ GroupAllocate(Len(groups), size)
    \/ \E i \in DOMAIN irqs : nops < MaxGroupOps /\ UpdateLegacy(i, GenericCfg, TRUE, TRUE)
    \/ \E g \in DOMAIN groups : \E answers \in Answers(g) : GroupEnable(g, answers)
    \/ \E g \in DOMAIN groups : \E answers \in Answers(g) : GroupDisable(g, answers)

SpecMembers == Init /\ [][NextMembers]_vars

\* The interrupts of the group the last enable / disable was called on, in index
\* order, and whether the hypervisor holds the fd of the k-th of them.
Members == groups[last.irq].interrupts
Held(fds, k) == <<Members[k], irqs[Members[k]].gsi>> \in fds
KeptAt(k) ==
    /\ irqs[Members[k]] = last.pre_irqs[Members[k]]
    /\ Held(irqfds, k) <=> Held(last.pre_fds, k)
\* The positions the hypervisor was called for during the last call, in call order.
RECURSIVE PositionOf(_, _)
PositionOf(i, k) == IF k > Len(Members) \/ Members[k] = i THEN k ELSE PositionOf(i, k + 1)
CalledPositions ==
    LET mine == SelectSeq(fdlog, LAMBDA e : e.n = nops)
    IN  [c \in 1..Len(mine) |-> PositionOf(mine[c].call.fd[1], 1)]
InIndexOrder(positions) ==
    \A c \in 1..Len(positions), d \in 1..Len(positions) : c < d => positions[c] < positions[d]

\* C33: enable and disable on a group visit its interrupts in index order and
\* stop at the first one that fails: the call returns that interrupt's error, the
\* interrupts before it are enabled (disabled), the ones after it are as they
\* were and the hypervisor was not called for them; with no failure the call
\* returns Ok and every interrupt of the group is enabled (disabled).
C33_GroupStopsAtFirstFailure ==
    (last.api \in {"group_enable", "group_disable"})
    => LET on == (last.api = "group_enable")
           done(k) == irqs[Members[k]].registered = on /\ (Held(irqfds, k) <=> on)
       IN  /\ InIndexOrder(CalledPositions)
           /\ \A i \in DOMAIN irqs : i \notin SeqRange(Members) => irqs[i] = last.pre_irqs[i]
           /\ IF last.ret.kind = "Ok"
              THEN \A k \in DOMAIN Members : done(k)
              ELSE /\ last.ret.kind = "InterruptNotChanged"
                   /\ \E f \in DOMAIN Members :
                          /\ \A k \in 1..(f - 1) : done(k)
                          /\ ~done(f) /\ KeptAt(f)
                          /\ \A k \in (f + 1)..Len(Members) : KeptAt(k)
                          /\ \A c \in DOMAIN CalledPositions : CalledPositions[c] <= f

\* disable on a group of three registered interrupts failed at the second: the
\* first was unregistered by this call, the third is still registered.
C33_Witness ==
    /\ last.api = "group_disable" /\ last.ret.kind = "InterruptNotChanged"
    /\ Len(Members) = 3
    /\ \A k \in 1..3 : last.pre_irqs[Members[k]].registered
    /\ ~irqs[Members[1]].registered
    /\ irqs[Members[2]].registered /\ irqs[Members[3]].registered
    /\ Len(CalledPositions) = 2

(***************************************************************************)
(* device_manager/legacy.rs: PortIODeviceManager::new followed by          *)
(* register_devices on a fresh VM. boot counts the statements done; the    *)
(* hypervisor answers every commit and every irqfd call as it likes.       *)
(***************************************************************************)
\* The lines requested for the two serial interrupts and the keyboard interrupt.
BootLines == <<4, 3, 1>>
BootCfg(n) == [interrupt_line |-> Some(BootLines[n]), interrupt_pin |-> None]
\* boot once register_devices has returned, and once an unwrap has panicked
BootDone == 9
BootPanicked == BootDone + 1

\* interrupt_manager.get_new_legacy_group().unwrap(), for the serial ports and
\* for the keyboard
BootGroup ==
    /\ boot \in {0, 4}
    /\ GroupHandedOut("legacy")
    /\ boot' = boot + 1

\* serial_irq_group.allocate_interrupts(2), kbd_irq_group.allocate_interrupts(1)
BootAllocate ==
    /\ \/ boot = 1 /\ GroupFilled(1, 2)
       \/ boot = 5 /\ GroupFilled(2, 1)
    /\ boot' = IF crashed' THEN BootPanicked ELSE boot + 1

\* group.get(index).unwrap().update(&LegacyIrqConfig { .. }).unwrap()
BootUpdate(accepted1, accepted2) ==
    /\ \/ boot = 2 /\ LegacyUpdated(groups[1].interrupts[1], BootCfg(1), accepted1, accepted2)
       \/ boot = 3 /\ LegacyUpdated(groups[1].interrupts[2], BootCfg(2), accepted1, accepted2)
       \/ boot = 6 /\ LegacyUpdated(groups[2].interrupts[1], BootCfg(3), accepted1, accepted2)
    /\ boot' = boot + 1

\* self.serial_irq_group.enable().unwrap(); self.kbd_irq_group.enable().unwrap()
BootEnable(answers) ==
    /\ boot \in {7, 8}
    /\ LET g == boot - 6
           r == Group_enable(irqs, groups[g].interrupts, irqfds, answers, 1)
       IN  /\ GroupCall("group_enable", g, r)
           /\ boot' = IF r.ret.kind = "Ok" THEN boot + 1 ELSE BootPanicked

NextBoot ==
    \/ BootGroup
    \/ BootAllocate
    \/ \E accepted1 \in BOOLEAN, accepted2 \in BOOLEAN : BootUpdate(accepted1, accepted2)
    \/ \E answers \in [1..2 -> BOOLEAN] : BootEnable(answers)

SpecBoot == Init /\ [][NextBoot]_vars

\* The host has refused nothing so far: no commit, no irqfd call, no EventFd::new.
NothingRefused ==
    /\ rejects = 0
    /\ \A k \in 1..Len(fdlog) : fdlog[k].call.ok
    /\ ~(last.api = "allocate_interrupts" /\ last.res.kind # "Ok")
\* boot after the update of the n-th interrupt (the keyboard's comes after its
\* group was built)
UpdatedAt(n) == IF n = 3 THEN 7 ELSE n + 2

\* C35: on a fresh VM with the host refusing nothing, each of the three
\* updates with requested line 4, 3, 1 returns Ok, route_generic returns the
\* requested line and the hypervisor's table routes the interrupt's GSI to that
\* line of the XT-PIC; the two group enables then return Ok and every interrupt of both groups
\* is registered with the hypervisor.
C35_BootSequence ==
    NothingRefused
    => /\ boot # BootPanicked /\ ~crashed
       /\ \A n \in 1..3 :
              (boot >= UpdatedAt(n) /\ n \in DOMAIN irqs)
              => /\ get_config(irqs[n]).kind = "Ok"
                 /\ get_config(irqs[n]).val.interrupt_line = Some(Ok(BootLines[n]))
                 /\ PicEntry(irqs[n].gsi, BootLines[n]) \in kvm
       /\ (boot \in {3, 4, 7}) => (last.api = "update" /\ last.ret.kind = "Ok"
                                   /\ last.res.kind = "Ok")
       /\ (boot \in {8, 9}) => (last.api = "group_enable" /\ last.ret.kind = "Ok")
       /\ boot >= 8 => \A k \in DOMAIN groups[1].interrupts :
                           LET i == groups[1].interrupts[k]
                           IN  irqs[i].registered /\ <<i, irqs[i].gsi>> \in irqfds
       /\ boot = BootDone => \A i \in DOMAIN irqs :
                                 irqs[i].registered /\ <<i, irqs[i].gsi>> \in irqfds

\* register_devices has returned with nothing refused: three interrupts in two
\* groups, all registered.
C35_Witness ==
    /\ boot = BootDone /\ NothingRefused
    /\ Len(groups) = 2 /\ Len(irqs) = 3
    /\ Cardinality(irqfds) = 3

====
